---- MODULE Spec2Model ----
(***************************************************************************)
(* Model of the speech-generation pipeline of tts-player                   *)
(* (src-tauri/src/tts.rs, src-tauri/src/database.rs).                      *)
(*                                                                         *)
(* Text is a sequence of one-character strings.  Rust's str::len counts    *)
(* bytes, so every length the code takes of a text is ByteLen, in which    *)
(* the two-byte character "é" counts twice.                                *)
(***************************************************************************)
EXTENDS Integers, Sequences, FiniteSets, TLC

(***************************************************************************)
(* Bounds of the model.                                                    *)
(***************************************************************************)
\* longest text handed to the chunker in SpecSplit
MaxLen == 5
\* largest max_size handed to the chunker in SpecSplit
MaxSize == 3

\* characters of the chunker's input texts; "é" takes two bytes
Chars == {"a", "é", ".", "!", "?", " ", "\n"}

\* all sequences over S of length at most n
RECURSIVE SeqsUpTo(_, _)
SeqsUpTo(S, n) ==
  IF n = 0 THEN {<<>>}
  ELSE LET shorter == SeqsUpTo(S, n - 1)
       IN  shorter \cup {Append(s, c) : s \in {t \in shorter : Len(t) = n - 1}, c \in S}

(***************************************************************************)
(* Lengths and slices of UTF-8 text                                        *)
(***************************************************************************)
\* bytes of the UTF-8 encoding of a character
Utf8Len(c) == IF c = "é" THEN 2 ELSE 1

\* str::len: the length of a text in bytes
RECURSIVE ByteLen(_)
ByteLen(text) == IF text = <<>> THEN 0 ELSE Utf8Len(Head(text)) + ByteLen(Tail(text))

\* the characters that lie wholly within the first n bytes of a text
RECURSIVE BytePrefix(_, _)
BytePrefix(text, n) ==
  IF text = <<>> \/ Utf8Len(Head(text)) > n THEN <<>>
  ELSE <<Head(text)>> \o BytePrefix(Tail(text), n - Utf8Len(Head(text)))

\* str::is_char_boundary: byte offset n does not fall inside a character
IsCharBoundary(text, n) == ByteLen(BytePrefix(text, n)) = n

\* &text[..n] panics unless n is a character boundary
SlicePanics(text, n) == ~IsCharBoundary(text, n)

(***************************************************************************)
(* Chunker: TTSService::split_text_semantically                            *)
(***************************************************************************)
\* sentence_endings, tts.rs line 564
sentence_endings ==
  { <<".", " ">>, <<"!", " ">>, <<"?", " ">>,
    <<".", "\n">>, <<"!", "\n">>, <<"?", "\n">> }

\* char::is_whitespace restricted to the model's alphabet
IsWhitespace(c) == c \in {" ", "\n"}

\* Lines 569-577: the smallest end position (pos + ending.len()) over all
\* sentence endings found in remaining_text; 0 stands for None.
SentenceEnd(remaining_text) ==
  LET ends == { i + 1 : i \in { j \in 1..(Len(remaining_text) - 1) :
                                  SubSeq(remaining_text, j, j + 1) \in sentence_endings } }
  IN  IF ends = {} THEN 0
      ELSE CHOOSE e \in ends : \A f \in ends : e <= f

\* Lines 579-584: (sentence, rest)
SplitSentence(remaining_text) ==
  LET end_pos == SentenceEnd(remaining_text)
  IN  IF end_pos # 0
      THEN << SubSeq(remaining_text, 1, end_pos),
              SubSeq(remaining_text, end_pos + 1, Len(remaining_text)) >>
      ELSE << remaining_text, <<>> >>

\* str::split_whitespace (line 596): the maximal runs of non-whitespace
RECURSIVE SplitWhitespaceFrom(_, _, _)
SplitWhitespaceFrom(s, words, word) ==
  IF s = <<>> THEN (IF word = <<>> THEN words ELSE Append(words, word))
  ELSE IF IsWhitespace(Head(s))
       THEN SplitWhitespaceFrom(Tail(s),
                                IF word = <<>> THEN words ELSE Append(words, word),
                                <<>>)
       ELSE SplitWhitespaceFrom(Tail(s), words, Append(word, Head(s)))

SplitWhitespace(s) == SplitWhitespaceFrom(s, <<>>, <<>>)

\* mutant of SentenceOverflows: a sentence that fits exactly is taken not to
SentenceOverflowsAtLimit(current_chunk, sentence, max_size) ==
  current_chunk # <<>> /\ ByteLen(current_chunk) + ByteLen(sentence) >= max_size

\* Line 587: the sentence does not fit behind a non-empty current chunk
\* (String::len and str::len: both lengths are in bytes)
SentenceOverflows(current_chunk, sentence, max_size) ==
  current_chunk # <<>> /\ ByteLen(current_chunk) + ByteLen(sentence) > max_size

\* Lines 587-591: state [chunks, current] after the sentence-overflow flush
FlushForSentence(st, sentence, max_size) ==
  IF SentenceOverflows(st.current, sentence, max_size)
  THEN [chunks |-> Append(st.chunks, st.current), current |-> <<>>]
  ELSE st

\* mutant of FlushBeforeWord: the emptiness test of line 599 is missing
FlushBeforeWordNoEmptyTest(st, word, max_size) ==
  IF ByteLen(st.current) + ByteLen(word) + 1 > max_size
  THEN [chunks |-> Append(st.chunks, st.current), current |-> <<>>]
  ELSE st

\* Lines 598-603: close the current chunk when the word does not fit
FlushBeforeWord(st, word, max_size) ==
  IF ByteLen(st.current) + ByteLen(word) + 1 > max_size /\ st.current # <<>>
  THEN [chunks |-> Append(st.chunks, st.current), current |-> <<>>]
  ELSE st

\* Lines 604-607: append the word, after a space if the chunk is not empty
PushWord(st, word) ==
  [st EXCEPT !.current =
     (IF st.current # <<>> THEN Append(st.current, " ") ELSE st.current) \o word]

\* Lines 597-608: the loop over the words of an overlong sentence
RECURSIVE PackWords(_, _, _)
PackWords(st, words, max_size) ==
  IF words = <<>> THEN st
  ELSE PackWords(PushWord(FlushBeforeWord(st, Head(words), max_size), Head(words)),
                 Tail(words), max_size)

\* Line 610: current_chunk.push_str(sentence)
PushSentence(st, sentence) ==
  [st EXCEPT !.current = st.current \o sentence]

\* Lines 586-611: one iteration of the while loop on one sentence
AddSentence(st, sentence, max_size) ==
  LET flushed == FlushForSentence(st, sentence, max_size)
  IN  IF ByteLen(sentence) > max_size
      THEN PackWords(flushed, SplitWhitespace(sentence), max_size)
      ELSE PushSentence(flushed, sentence)

\* Lines 567-614: the while loop over remaining_text
RECURSIVE SplitLoop(_, _, _)
SplitLoop(st, remaining_text, max_size) ==
  IF remaining_text = <<>> THEN st
  ELSE LET sr == SplitSentence(remaining_text)
       IN  SplitLoop(AddSentence(st, sr[1], max_size), sr[2], max_size)

\* Lines 559-622: split_text_semantically
split_text_semantically(text, max_size) ==
  LET st == SplitLoop([chunks |-> <<>>, current |-> <<>>], text, max_size)
  IN  IF st.current # <<>> THEN Append(st.chunks, st.current) ELSE st.chunks

(***************************************************************************)
(* Helpers used to state properties of the chunker                         *)
(***************************************************************************)
RECURSIVE Concat(_)
Concat(ss) == IF ss = <<>> THEN <<>> ELSE Head(ss) \o Concat(Tail(ss))

\* the candidate sentences the while loop of the chunker takes in turn
RECURSIVE Sentences(_)
Sentences(remaining_text) ==
  IF remaining_text = <<>> THEN <<>>
  ELSE LET sr == SplitSentence(remaining_text)
       IN  <<sr[1]>> \o Sentences(sr[2])

\* no candidate sentence of the text needs the word fallback
AllSentencesFit(text, max_size) ==
  \A k \in DOMAIN Sentences(text) : ByteLen(Sentences(text)[k]) <= max_size

(***************************************************************************)
(* Values of the service                                                   *)
(*                                                                         *)
(* A String that is not a text (an error message, a response body) is a    *)
(* sequence of string tokens; Option<T> is <<>> for None and <<v>> for     *)
(* Some(v); Result<T, TTSError> is a record tagged "ok" or "err".          *)
(***************************************************************************)
None == <<>>
Some(v) == <<v>>

Ok(v) == [tag |-> "ok", value |-> v]
Err(e) == [tag |-> "err", error |-> e]
\* no value yet: the call has not returned
Pending == [tag |-> "pending"]

\* enum TTSError, tts.rs lines 11-17
Authentication(msg) == [kind |-> "Authentication", msg |-> msg]
RateLimit(retry_after) == [kind |-> "RateLimit", retry_after |-> retry_after]
ValidationError(msg) == [kind |-> "ValidationError", msg |-> msg]
NetworkError(msg) == [kind |-> "NetworkError", msg |-> msg]
UnknownError(msg) == [kind |-> "UnknownError", msg |-> msg]

\* decimal digits of a natural number, as Display prints it
RECURSIVE Decimal(_)
Decimal(n) ==
  LET digit == <<"0", "1", "2", "3", "4", "5", "6", "7", "8", "9">>[(n % 10) + 1]
  IN  IF n < 10 THEN <<digit>> ELSE Append(Decimal(n \div 10), digit)

\* impl Display for TTSError, tts.rs lines 19-35
to_string(error) ==
  CASE error.kind = "Authentication" -> <<"Authentication error: ">> \o error.msg
    [] error.kind = "RateLimit" ->
         IF error.retry_after # None
         THEN <<"Rate limit exceeded. Retry after ">> \o Decimal(error.retry_after[1])
                \o <<" seconds">>
         ELSE <<"Rate limit exceeded">>
    [] error.kind = "ValidationError" -> <<"Validation error: ">> \o error.msg
    [] error.kind = "NetworkError" -> <<"Network error: ">> \o error.msg
    [] error.kind = "UnknownError" -> <<"Unknown error: ">> \o error.msg

(***************************************************************************)
(* Provider responses                                                      *)
(***************************************************************************)
\* audio bodies the provider may answer with
Audios == { <<1>>, <<2, 3>> }

\* values of the retry-after header: absent, an integer, not an integer
RetryAfterHeaders == { None, Some(<<"6", "0">>), Some(<<"x">>) }

\* what one send() of a request may come back with: a transport failure
\* (among them the client's 120 s timeout, line 55), or a response with a
\* status, a body that can or cannot be read, and maybe a retry-after header
Responses ==
  { [kind |-> "transport", error |-> <<"operation timed out">>] }
  \cup { [kind |-> "http", status |-> 200, body |-> a, body_ok |-> TRUE,
          retry_after |-> None] : a \in Audios }
  \cup { [kind |-> "http", status |-> 200, body |-> <<>>, body_ok |-> FALSE,
          retry_after |-> None] }
  \cup { [kind |-> "http", status |-> 401, body |-> <<"invalid api key">>,
          body_ok |-> TRUE, retry_after |-> None] }
  \cup { [kind |-> "http", status |-> 429, body |-> <<"slow down">>, body_ok |-> TRUE,
          retry_after |-> h] : h \in RetryAfterHeaders }
  \cup { [kind |-> "http", status |-> 404, body |-> <<"not found">>,
          body_ok |-> TRUE, retry_after |-> None] }
  \cup { [kind |-> "http", status |-> 500, body |-> <<"server error">>,
          body_ok |-> TRUE, retry_after |-> None] }

\* Display of reqwest::StatusCode: the code and its canonical reason
StatusText(status) ==
  CASE status = 200 -> "200 OK"
    [] status = 401 -> "401 Unauthorized"
    [] status = 404 -> "404 Not Found"
    [] status = 429 -> "429 Too Many Requests"
    [] status = 500 -> "500 Internal Server Error"

\* StatusCode::is_success: 2xx
IsSuccess(status) == status >= 200 /\ status < 300

\* str::parse::<u64> on the characters of a header value
RECURSIVE DigitsValue(_, _)
DigitsValue(s, acc) ==
  IF s = <<>> THEN acc
  ELSE DigitsValue(Tail(s),
         10 * acc + (CHOOSE d \in 0..9 : Decimal(d) = <<Head(s)>>))

ParseU64(s) ==
  LET digits == IF s # <<>> /\ Head(s) = "+" THEN Tail(s) ELSE s
  IN  IF digits # <<>> /\ \A i \in DOMAIN digits :
                             digits[i] \in {"0", "1", "2", "3", "4", "5", "6", "7", "8", "9"}
      THEN Some(DigitsValue(digits, 0))
      ELSE None

\* Lines 160-163: headers().get("retry-after").and_then(to_str).and_then(parse)
ParseRetryAfter(header) ==
  IF header = None THEN None ELSE ParseU64(header[1])

\* response.text().await.unwrap_or_default(), lines 156, 167
BodyText(resp) == IF resp.body_ok THEN resp.body ELSE <<>>

\* mutant of ClassifyResponse: a server error is taken for a network error
ClassifyResponseServerErrorAsNetwork(resp) ==
  IF resp.kind = "transport" THEN Err(NetworkError(resp.error))
  ELSE CASE resp.status = 200 ->
              IF resp.body_ok THEN Ok(resp.body)
              ELSE Err(NetworkError(<<"error decoding response body">>))
         [] resp.status = 401 -> Err(Authentication(BodyText(resp)))
         [] resp.status = 429 -> Err(RateLimit(ParseRetryAfter(resp.retry_after)))
         [] resp.status >= 500 /\ resp.status < 600 ->
              Err(NetworkError(<<"HTTP ", StatusText(resp.status), ": ">> \o BodyText(resp)))
         [] OTHER ->
              Err(UnknownError(<<"HTTP ", StatusText(resp.status), ": ">> \o BodyText(resp)))

\* generate_speech, lines 140-170, and generate_speech_with_model_single,
\* lines 379-400: the outcome of the single request
ClassifyResponse(resp) ==
  IF resp.kind = "transport" THEN Err(NetworkError(resp.error))
  ELSE CASE resp.status = 200 ->
              IF resp.body_ok THEN Ok(resp.body)
              ELSE Err(NetworkError(<<"error decoding response body">>))
         [] resp.status = 401 -> Err(Authentication(BodyText(resp)))
         [] resp.status = 429 -> Err(RateLimit(ParseRetryAfter(resp.retry_after)))
         [] OTHER ->
              Err(UnknownError(<<"HTTP ", StatusText(resp.status), ": ">> \o BodyText(resp)))

\* generate_speech_with_ffmpeg_concat, lines 205-234: the outcome of the
\* request of one chunk
ClassifyChunkResponse(resp) ==
  IF resp.kind = "transport"
  THEN Err(NetworkError(<<"Failed to send request: ">> \o resp.error))
  ELSE IF ~resp.body_ok
  THEN Err(NetworkError(<<"Failed to read response: ", "error decoding response body">>))
  ELSE IF ~IsSuccess(resp.status)
  THEN Err(UnknownError(<<"HTTP ", StatusText(resp.status), ": ">> \o resp.body))
  ELSE Ok(resp.body)

(***************************************************************************)
(* Retry policy: the match of generate_speech_with_retry                   *)
(***************************************************************************)
\* tts.rs line 404
MAX_RETRIES == 3
\* tts.rs line 405
BASE_DELAY_MS == 1000

\* mutant of Pow2: the delay does not grow
Pow2Constant(n) == 1

RECURSIVE Pow2(_)
Pow2(n) == IF n = 0 THEN 1 ELSE 2 * Pow2(n - 1)

\* mutant of RetryMatch: a success is not returned but retried like an error
RetryMatchIgnoresSuccess(outcome, attempt) ==
  IF outcome.tag = "err" /\ outcome.error.kind = "RateLimit"
  THEN [return |-> TRUE, result |-> Err(RateLimit(None))]
  ELSE IF outcome.tag = "err" /\ outcome.error.kind = "Authentication"
  THEN [return |-> TRUE, result |-> Err(Authentication(<<"API key invalid">>))]
  ELSE IF attempt = MAX_RETRIES - 1
  THEN [return |-> TRUE, result |-> outcome]
  ELSE [return |-> FALSE, delay |-> BASE_DELAY_MS * Pow2(attempt)]

\* mutant of RetryMatch: the arm for Authentication is missing
RetryMatchRetriesAuth(outcome, attempt) ==
  IF outcome.tag = "ok"
  THEN [return |-> TRUE, result |-> outcome]
  ELSE IF outcome.error.kind = "RateLimit"
  THEN [return |-> TRUE, result |-> Err(RateLimit(None))]
  ELSE IF attempt = MAX_RETRIES - 1
  THEN [return |-> TRUE, result |-> outcome]
  ELSE [return |-> FALSE, delay |-> BASE_DELAY_MS * Pow2(attempt)]

\* mutant of RetryMatch: the last attempt is taken to be the one before it
RetryMatchGivesUpEarly(outcome, attempt) ==
  IF outcome.tag = "ok"
  THEN [return |-> TRUE, result |-> outcome]
  ELSE IF outcome.error.kind = "RateLimit"
  THEN [return |-> TRUE, result |-> Err(RateLimit(None))]
  ELSE IF outcome.error.kind = "Authentication"
  THEN [return |-> TRUE, result |-> Err(Authentication(<<"API key invalid">>))]
  ELSE IF attempt = MAX_RETRIES - 2
  THEN [return |-> TRUE, result |-> outcome]
  ELSE [return |-> FALSE, delay |-> BASE_DELAY_MS * Pow2(attempt)]

\* Lines 408-418: what the loop body does with the outcome of attempt
\* number `attempt` (0-based): return a result, or sleep for a delay
RetryMatch(outcome, attempt) ==
  IF outcome.tag = "ok"
  THEN [return |-> TRUE, result |-> outcome]
  ELSE IF outcome.error.kind = "RateLimit"
  THEN [return |-> TRUE, result |-> Err(RateLimit(None))]
  ELSE IF outcome.error.kind = "Authentication"
  THEN [return |-> TRUE, result |-> Err(Authentication(<<"API key invalid">>))]
  ELSE IF attempt = MAX_RETRIES - 1
  THEN [return |-> TRUE, result |-> outcome]
  ELSE [return |-> FALSE, delay |-> BASE_DELAY_MS * Pow2(attempt)]

(***************************************************************************)
(* Usage ledger                                                            *)
(***************************************************************************)
\* Scaled-down stand-in for the 100 characters of tts.rs line 458: texts of
\* the model are a few characters long.
StoreLimit == 4
\* the 97 of line 460: the limit less the three characters of the marker
StorePrefix == StoreLimit - 3

\* Lines 458-463: the text as stored in the record
StoredText(text) ==
  IF ByteLen(text) > StoreLimit
  THEN BytePrefix(text, StorePrefix) \o <<".", ".", ".">>
  ELSE text

\* a point in time: a day and an instant of that day
TimeLess(a, b) == a.day < b.day \/ (a.day = b.day /\ a.tod < b.tod)

\* the bytes that separate date and time in a timestamp's text: 'T', ' '
SepT == 84
SepSpace == 32

\* How a DateTime<Utc> bound to a query (database.rs lines 125, 256, 257) is
\* stored: as RFC 3339 text, date 'T' time
Rfc3339(t) == <<t.day, SepT, t.tod>>

\* the DateTime<Utc> read back from a column
ParseRfc3339(s) == [day |-> s[1], tod |-> s[3]]

\* SQLite's datetime('now', '-' || days || ' days'): text, date ' ' time
SqlCutoff(now, days) == <<now.day - days, SepSpace, now.tod>>

\* SQLite's comparison of two TEXT values: byte by byte
RECURSIVE SqlTextLess(_, _)
SqlTextLess(a, b) ==
  IF b = <<>> THEN FALSE
  ELSE IF a = <<>> THEN TRUE
  ELSE IF Head(a) = Head(b) THEN SqlTextLess(Tail(a), Tail(b))
  ELSE Head(a) < Head(b)

\* WHERE timestamp > datetime('now', '-' || ? || ' days')
\* (database.rs lines 145, 179, 196, 216)
InSqlWindow(row, now, days) == SqlTextLess(SqlCutoff(now, days), row.timestamp)

\* tts.rs lines 455-469: the record track_usage builds
NewUsageRecord(now, text, voice_id, model_id, success, error_message) ==
  [ id |-> None,
    timestamp |-> now,
    text |-> StoredText(text),
    character_count |-> ByteLen(text),
    voice_id |-> voice_id,
    model_id |-> model_id,
    success |-> success,
    error_message |-> error_message ]

\* mutant of record_usage: the id is the number of rows, as without
\* AUTOINCREMENT after the newest rows were deleted
record_usage_reusing_ids(db, record) ==
  [ db |-> [rows |-> Append(db.rows, [record EXCEPT !.id = Some(Len(db.rows) + 1),
                                                    !.timestamp = Rfc3339(record.timestamp)]),
            last_id |-> Len(db.rows) + 1],
    id |-> Len(db.rows) + 1 ]

\* database.rs lines 118-137: INSERT with an AUTOINCREMENT id; db is
\* [rows, last_id], the result the new db and the assigned id
record_usage(db, record) ==
  [ db |-> [rows |-> Append(db.rows, [record EXCEPT !.id = Some(db.last_id + 1),
                                                    !.timestamp = Rfc3339(record.timestamp)]),
            last_id |-> db.last_id + 1],
    id |-> db.last_id + 1 ]

\* what a call that panicked leaves its caller with
Panic == [tag |-> "panic"]

\* tts.rs lines 453-475: track_usage; `configured` is self.database.is_some(),
\* `write_ok` whether the INSERT succeeds
track_usage(now, db, configured, write_ok, text, voice_id, model_id, success, error_message) ==
  IF configured
  THEN IF ByteLen(text) > StoreLimit /\ SlicePanics(text, StorePrefix)
       THEN [db |-> db, res |-> Panic]
       ELSE IF write_ok
       THEN [db |-> record_usage(db, NewUsageRecord(now, text, voice_id, model_id,
                                                    success, error_message)).db,
             res |-> Ok(<<>>)]
       ELSE [db |-> db,
             res |-> Err(UnknownError(<<"Database error: ", "write failed">>))]
  ELSE [db |-> db, res |-> Ok(<<>>)]

(***************************************************************************)
(* Database (database.rs): the queries                                     *)
(***************************************************************************)
\* the letters of the voice ids, in the order of their bytes
Letters == << "a", "b", "c", "d", "e", "f", "g", "h", "i", "j", "k", "l", "m",
              "n", "o", "p", "q", "r", "s", "t", "u", "v", "w", "x", "y", "z" >>

\* the bytes of a text of letters
TextBytes(s) == [k \in DOMAIN s |-> CHOOSE c \in DOMAIN Letters : Letters[c] = s[k]]

\* a sequence without its k-th element
RemoveAt(s, k) == [j \in 1..(Len(s) - 1) |-> IF j < k THEN s[j] ELSE s[j + 1]]

RECURSIVE SumOf(_)
SumOf(s) == IF s = <<>> THEN 0 ELSE Head(s) + SumOf(Tail(s))

\* the rows a WHERE clause on the window keeps, in table order
WindowRows(rows, t, days) == SelectSeq(rows, LAMBDA r : InSqlWindow(r, t, days))

\* FromRow for UsageRecord (lines 7-17): the record read from a row
DecodeRecord(row) == [row EXCEPT !.timestamp = ParseRfc3339(row.timestamp)]

\* ORDER BY timestamp DESC (lines 146, 157): the scan of idx_usage_timestamp
\* backwards, which yields rows of equal timestamp by falling rowid
RowBefore(a, b) ==
  \/ SqlTextLess(b.timestamp, a.timestamp)
  \/ a.timestamp = b.timestamp /\ a.id[1] > b.id[1]

RECURSIVE OrderByTimestampDesc(_)
OrderByTimestampDesc(rows) ==
  IF rows = <<>> THEN <<>>
  ELSE LET k == CHOOSE k \in DOMAIN rows :
                  \A j \in DOMAIN rows \ {k} : RowBefore(rows[k], rows[j])
       IN <<rows[k]>> \o OrderByTimestampDesc(RemoveAt(rows, k))

\* LIMIT ? (lines 147, 158): a negative limit is no limit
SqlLimit(rows, limit) ==
  IF limit < 0 \/ limit >= Len(rows) THEN rows ELSE SubSeq(rows, 1, limit)

\* Lines 139-167: get_usage_records(limit, days) at time t
get_usage_records(db_, t, limit, days) ==
  LET eligible == IF days = None THEN db_.rows ELSE WindowRows(db_.rows, t, days[1])
      picked == SqlLimit(OrderByTimestampDesc(eligible), limit)
  IN Ok([k \in DOMAIN picked |-> DecodeRecord(picked[k])])

\* SUM(...) (lines 175-177): NULL over no rows
SqlSum(values) == IF values = <<>> THEN None ELSE Some(SumOf(values))

\* row.get::<i64, _> (lines 186, 188, 189): a NULL column reads as 0
GetI64(v) == IF v = None THEN 0 ELSE v[1]

\* COUNT(*) of a voice's group
UsageCount(rows, v) == Cardinality({ k \in DOMAIN rows : rows[k].voice_id = v })

\* Lines 192-203: GROUP BY voice_id ORDER BY usage_count DESC LIMIT 1; the
\* groups come in the order of voice_id and the sort keeps that order
\* among equal counts
MostUsedVoiceRow(rows) ==
  LET voices == { rows[k].voice_id : k \in DOMAIN rows }
  IN IF voices = {} THEN None
     ELSE Some(CHOOSE v \in voices : \A w \in voices \ {v} :
                 \/ UsageCount(rows, v) > UsageCount(rows, w)
                 \/ /\ UsageCount(rows, v) = UsageCount(rows, w)
                    /\ SqlTextLess(TextBytes(v), TextBytes(w)))

\* Line 206: the voice reported when no row is in the window
FALLBACK_VOICE == <<"r", "a", "c", "h", "e", "l">>

\* date(timestamp) (lines 212, 217)
SqlDate(ts) == ParseRfc3339(ts).day

\* Lines 209-232: one DailyUsage per date, latest date first
RECURSIVE DailyUsageRows(_, _)
DailyUsageRows(rows, dates) ==
  IF dates = {} THEN <<>>
  ELSE LET d == CHOOSE d \in dates : \A e \in dates : e <= d
           on == SelectSeq(rows, LAMBDA r : SqlDate(r.timestamp) = d)
       IN << [ date |-> d,
               character_count |->
                 GetI64(SqlSum([k \in DOMAIN on |-> on[k].character_count])),
               request_count |-> Len(on) ] >>
          \o DailyUsageRows(rows, dates \ {d})

\* Lines 171-190: the first statement, the totals of the window
StatsTotals(db_, t, days) ==
  LET rows == WindowRows(db_.rows, t, days)
  IN [ total_requests |-> Len(rows),
       total_characters |->
         GetI64(SqlSum([k \in DOMAIN rows |-> rows[k].character_count])),
       successful_requests |->
         GetI64(SqlSum([k \in DOMAIN rows |-> IF rows[k].success THEN 1 ELSE 0])),
       failed_requests |->
         GetI64(SqlSum([k \in DOMAIN rows |-> IF ~rows[k].success THEN 1 ELSE 0])) ]

\* Lines 193-207: the second statement, the most used voice of the window
StatsMostUsedVoice(db_, t, days) ==
  LET voice_row == MostUsedVoiceRow(WindowRows(db_.rows, t, days))
  IN IF voice_row = None THEN FALLBACK_VOICE ELSE voice_row[1]

\* Lines 210-231: the third statement, the usage of the window by day
StatsDailyUsage(db_, t, days) ==
  LET rows == WindowRows(db_.rows, t, days)
  IN DailyUsageRows(rows, { SqlDate(rows[k].timestamp) : k \in DOMAIN rows })

\* Lines 233-241: the UsageStats built from the three results
UsageStats(totals, most_used_voice, daily_usage) ==
  [ total_requests |-> totals.total_requests,
    total_characters |-> totals.total_characters,
    successful_requests |-> totals.successful_requests,
    failed_requests |-> totals.failed_requests,
    most_used_voice |-> most_used_voice,
    daily_usage |-> daily_usage ]

\* Lines 169-242: get_usage_stats(days) when its three statements run at
\* time t on one state of the table, no other statement in between
get_usage_stats(db_, t, days) ==
  Ok(UsageStats(StatsTotals(db_, t, days), StatsMostUsedVoice(db_, t, days),
                StatsDailyUsage(db_, t, days)))

\* the row written for a snapshot (lines 248-257)
CacheRow(user_info) ==
  [ id |-> 1,
    subscription_tier |-> user_info.subscription_tier,
    character_limit |-> user_info.character_limit,
    character_used |-> user_info.character_used,
    characters_remaining |-> user_info.characters_remaining,
    last_updated |-> Rfc3339(user_info.last_updated),
    reset_date |-> Rfc3339(user_info.reset_date) ]

\* mutant of cache_user_info: a plain INSERT under a fresh id
cache_user_info_insert(rows, user_info) ==
  Append(rows, [CacheRow(user_info) EXCEPT !.id = Len(rows) + 1])

\* Lines 244-262: INSERT OR REPLACE of the row with id 1
cache_user_info(rows, user_info) ==
  Append(SelectSeq(rows, LAMBDA r : r.id # 1), CacheRow(user_info))

\* Lines 264-286: the snapshot in the row with id 1, if there is one
get_cached_user_info(rows) ==
  LET found == SelectSeq(rows, LAMBDA r : r.id = 1)
  IN IF found = <<>> THEN Ok(None)
     ELSE Ok(Some([ subscription_tier |-> found[1].subscription_tier,
                    character_limit |-> found[1].character_limit,
                    character_used |-> found[1].character_used,
                    characters_remaining |-> found[1].characters_remaining,
                    reset_date |-> ParseRfc3339(found[1].reset_date),
                    last_updated |-> ParseRfc3339(found[1].last_updated) ]))

\* WHERE timestamp < datetime('now', '-' || ? || ' days') (line 292)
BeforeSqlWindow(row, t, days) == SqlTextLess(row.timestamp, SqlCutoff(t, days))

\* Lines 288-300: cleanup_old_records(days) at time t: the table without
\* the rows deleted, and rows_affected
cleanup_old_records(db_, t, days) ==
  LET kept == SelectSeq(db_.rows, LAMBDA r : ~BeforeSqlWindow(r, t, days))
  IN [ db |-> [db_ EXCEPT !.rows = kept],
       res |-> Ok(Len(db_.rows) - Len(kept)) ]

(***************************************************************************)
(* Bounds and inputs of the service model                                  *)
(***************************************************************************)
\* Scaled-down stand-in for MAX_CHUNK_SIZE = 3800 (tts.rs lines 175, 478)
ChunkLimit == 3
\* Scaled-down stand-in for the single-request limit 4000 (lines 110, 333):
\* as in the source, a little above the chunk size
SingleLimit == ChunkLimit + 1
\* longest text handed to the service
PipeMaxLen == 5

\* n times the character c
Repeat(c, n) == [k \in 1..n |-> c]

\* texts with the two-byte character "é", placed against the limits: one
\* longer than the record's limit with byte StorePrefix inside the "é", one
\* with byte SingleLimit inside the "é", one longer than a chunk in bytes
\* but not in characters, and one of three words that each fill a chunk
MultiByteTexts ==
  { Repeat("a", StorePrefix - 1) \o <<"é">> \o Repeat("a", 3),
    Repeat("a", SingleLimit - 1) \o <<"é">>,
    <<"é", " ">> \o Repeat("a", ChunkLimit - 2),
    <<"é", " ", "é", " ", "é">> }

\* characters of the service's input texts
PipeChars == {"a", ".", " "}
PipeTexts == SeqsUpTo(PipeChars, PipeMaxLen) \cup MultiByteTexts
\* longest text handed to generate_speech_with_retry
RetryMaxLen == 5
\* texts handed to generate_speech_with_retry
RetryTexts == SeqsUpTo({"a", " "}, RetryMaxLen) \cup MultiByteTexts
\* voice ids handed to the service, as sequences of characters
VoiceIds == { <<"a", "l", "l", "o", "y">> }
\* longest text handed to the commands and to generate_speech_with_model
CmdMaxLen == 5
\* texts handed to the commands and to generate_speech_with_model: empty,
\* whitespace-only, short, and long enough for several chunks
CmdTexts == SeqsUpTo({"a", " "}, CmdMaxLen) \cup MultiByteTexts
\* voice ids handed to the commands: valid, valid once trimmed, unknown,
\* empty
CmdVoiceIds ==
  VoiceIds \cup { <<" ", "n", "o", "v", "a", " ">>,
                  <<"r", "a", "c", "h", "e", "l">>, <<>> }
\* models handed to generate_speech_with_model
ModelIds == {"tts-1", "tts-1-hd"}

\* model_id of generate_speech_tracked_single (line 510), also the model of
\* the request bodies of lines 134 and 199 and of the record of line 325
DEFAULT_MODEL == "tts-1-hd"

\* The external tool run with `-f concat -c copy` on the manifest: the
\* output is the contents of the files the manifest lists, in its order.
FfmpegConcat(manifest, files) ==
  Concat([k \in 1..Len(manifest) |-> files[manifest[k]]])

\* outcomes of running the external tool (lines 291-312)
ToolOutcomes == {"ok", "spawn_failed", "exit_failure"}

\* an empty usage_records table whose AUTOINCREMENT counter is at 0
EmptyDb == [rows |-> <<>>, last_id |-> 0]

(***************************************************************************)
(* State                                                                   *)
(***************************************************************************)
VARIABLES
  sp_pc,        \* chunker harness: "ready" before the call, "done" after
  sp_text,      \* chunker harness: the text argument
  sp_max,       \* chunker harness: the max_size argument
  sp_chunks,    \* chunker harness: the returned Vec<String>
  database,     \* TTSService.database is Some (with_database) or None (new)
  ffmpeg,       \* `which ffmpeg` succeeds
  db,           \* usage_records: [rows, last_id]
  requests,     \* history: the request bodies sent to the provider, in order
  received,     \* history: how many requests have been answered
  last_response,\* history: what came back for the last answered request
  tool_runs,    \* history: how many times the external tool was run
  op,           \* the entry point called: "none", "retry", "speech", "chunked",
                \*   "model", "cmd_generate", "cmd_model"
  pc,           \* position of the called method
  text,         \* its text argument
  voice,        \* its voice_id argument
  model,        \* its model argument, "" when it has none
  result,       \* its return value, Pending until it returns
  attempt,      \* generate_speech_with_retry: the loop variable
  waits,        \* history: the backoff delays slept, in order (ms)
  outcomes,     \* history: what each generate_speech of the retry loop returned
  ck_chunks,    \* generate_speech_chunked: the texts to synthesize
  ck_i,         \* generate_speech_chunked: number of chunks completed
  audio_chunks, \* generate_speech_chunked: audio collected so far
  track_res,    \* what the last track_usage call returned, Pending if none
  gs_pc,        \* generate_speech: "idle", "entry", "send", "await", "concat", "done";
                \*   generate_speech_with_model enters at "model_entry"
  gs_text,      \* generate_speech: its text argument
  gs_model,     \* the model of the request body
  gs_result,    \* generate_speech: its return value
  fc_pc,        \* generate_speech_with_ffmpeg_concat: "idle", "start", "loop",
                \*   "sleep", "send", "await", "tool", "track", "done"
  fc_chunks,    \* generate_speech_with_ffmpeg_concat: chunks
  fc_i,         \* generate_speech_with_ffmpeg_concat: number of chunks completed
  temp_files,   \* the per-chunk temporary files that exist, by content
  list_file,    \* the manifest file: None, or Some(the listed files, in order)
  output_file,  \* the tool's output file: None, or Some(its content)
  fc_result,    \* generate_speech_with_ffmpeg_concat: its return value
  now,          \* the clock: Utc::now() and SQLite's 'now', [day, tod]
  cache,        \* user_info_cache: its rows
  led,          \* the last ledger call: its name, arguments and return value
  given,        \* history: given[id] is the record handed to record_usage
                \*   when the ledger assigned id
  snaps,        \* history: the snapshots handed to cache_user_info, in order
  inflight,     \* the ledger call of several statements that is under way:
                \*   its name, arguments, statements awaited and their results
  calls,        \* concurrent calls of generate_speech_with_ffmpeg_concat: the
                \*   locals of each call, by caller
  tmp_dir       \* the temporary directory the calls share: content by path

sp_vars == <<sp_pc, sp_text, sp_max, sp_chunks>>
env_vars == <<database, ffmpeg>>
call_vars == <<op, pc, text, voice, model, result>>
retry_vars == <<attempt, waits, outcomes>>
ck_vars == <<ck_chunks, ck_i, audio_chunks>>
store_vars == <<db, track_res>>
gs_vars == <<gs_pc, gs_text, gs_model, gs_result>>
fc_vars == <<fc_pc, fc_chunks, fc_i, temp_files, list_file, output_file, fc_result>>
led_vars == <<now, cache, led, given, snaps, inflight>>
co_vars == <<calls, tmp_dir>>

vars == <<sp_pc, sp_text, sp_max, sp_chunks, database, ffmpeg, db, requests,
          received, last_response, tool_runs,
          op, pc, text, voice, model, result, attempt, waits, outcomes,
          ck_chunks, ck_i, audio_chunks, track_res,
          gs_pc, gs_text, gs_model, gs_result,
          fc_pc, fc_chunks, fc_i, temp_files, list_file, output_file, fc_result,
          now, cache, led, given, snaps, inflight, calls, tmp_dir>>

\* the callers whose calls run concurrently
Callers == {1, 2}

\* the locals of a call of generate_speech_with_ffmpeg_concat that has not
\* started: its arguments, chunks, loop index, the paths of the temporary
\* files it owns, the buffer it read the output file into, the response
\* bodies it received and the usage record it handed to the ledger (both
\* history), and its return value
IdleCall ==
  [ pc |-> "idle", text |-> <<>>, voice_id |-> <<>>, chunks |-> <<>>, i |-> 0,
    temp_files |-> <<>>, list_file |-> None, output_file |-> None,
    buffer |-> None, bodies |-> <<>>, wrote |-> None, result |-> Pending ]

\* the temporary directory with no file of the service in it
EmptyDir == <<>>

\* no ledger call made yet
NoCall == [name |-> "none"]

\* the first instant of the clock
Epoch == [day |-> 0, tod |-> 0]

\* the service before any call
ServiceIdle ==
  /\ db = EmptyDb
  /\ requests = <<>>
  /\ received = 0
  /\ last_response = None
  /\ tool_runs = 0
  /\ op = "none"
  /\ pc = "idle"
  /\ text = <<>>
  /\ voice = <<>>
  /\ model = ""
  /\ result = Pending
  /\ attempt = 0
  /\ waits = <<>>
  /\ outcomes = <<>>
  /\ ck_chunks = <<>>
  /\ ck_i = 0
  /\ audio_chunks = <<>>
  /\ track_res = Pending
  /\ gs_pc = "idle"
  /\ gs_text = <<>>
  /\ gs_model = ""
  /\ gs_result = Pending
  /\ fc_pc = "idle"
  /\ fc_chunks = <<>>
  /\ fc_i = 0
  /\ temp_files = <<>>
  /\ list_file = None
  /\ output_file = None
  /\ fc_result = Pending
  /\ now = Epoch
  /\ cache = <<>>
  /\ led = NoCall
  /\ given = <<>>
  /\ snaps = <<>>
  /\ inflight = NoCall
  /\ calls = [c \in Callers |-> IdleCall]
  /\ tmp_dir = EmptyDir

\* TTSService::new / TTSService::with_database (lines 53-82)
Init ==
  /\ sp_pc = "off"
  /\ sp_text = <<>>
  /\ sp_max = 1
  /\ sp_chunks = <<>>
  /\ database \in BOOLEAN
  /\ ffmpeg \in BOOLEAN
  /\ ServiceIdle

(***************************************************************************)
(* generate_speech (lines 108-171)                                         *)
(***************************************************************************)
\* Lines 110-129: a text of more than 4000 bytes goes to the concatenation
\* path when the tool is there; otherwise `truncated` is sliced off it (lines
\* 121-125), which panics when byte 4000 is inside a character, and is not
\* used: the text itself is sent, with the model of line 134.
GsEntry ==
  /\ gs_pc = "entry"
  /\ gs_model' = DEFAULT_MODEL
  /\ IF ByteLen(gs_text) > SingleLimit /\ ffmpeg
     THEN /\ gs_pc' = "concat"
          /\ fc_pc' = "start"
          /\ gs_result' = gs_result
     ELSE IF ByteLen(gs_text) > SingleLimit /\ SlicePanics(gs_text, SingleLimit)
     THEN /\ gs_pc' = "done"
          /\ fc_pc' = fc_pc
          /\ gs_result' = Panic
     ELSE /\ gs_pc' = "send"
          /\ fc_pc' = fc_pc
          /\ gs_result' = gs_result
  /\ UNCHANGED <<sp_vars, led_vars, co_vars, env_vars, call_vars, retry_vars, ck_vars, store_vars,
                 requests, received, last_response, tool_runs, gs_text,
                 fc_chunks, fc_i, temp_files, list_file, output_file, fc_result>>

\* Lines 131-146 and 363-378: the request is sent
GsSend ==
  /\ gs_pc = "send"
  /\ requests' = Append(requests, [input |-> gs_text, voice |-> voice,
                                   model |-> gs_model])
  /\ gs_pc' = "await"
  /\ UNCHANGED <<sp_vars, led_vars, co_vars, env_vars, call_vars, retry_vars, ck_vars, store_vars,
                 received, last_response, tool_runs, gs_text, gs_model, gs_result, fc_vars>>

\* Lines 147-170 and 379-400: the response arrives and is classified
GsRespond(resp) ==
  /\ gs_pc = "await"
  /\ received' = received + 1
  /\ last_response' = Some(resp)
  /\ gs_result' = ClassifyResponse(resp)
  /\ gs_pc' = "done"
  /\ UNCHANGED <<sp_vars, led_vars, co_vars, env_vars, call_vars, retry_vars, ck_vars, store_vars,
                 requests, tool_runs, gs_text, gs_model, fc_vars>>

\* Lines 116 and 344: return self.generate_speech_with_ffmpeg_concat(text,
\* voice_id).await
GsConcatReturn ==
  /\ gs_pc = "concat"
  /\ fc_pc = "done"
  /\ gs_result' = fc_result
  /\ gs_pc' = "done"
  /\ fc_pc' = "idle"
  /\ UNCHANGED <<sp_vars, led_vars, co_vars, env_vars, call_vars, retry_vars, ck_vars, store_vars,
                 requests, received, last_response, tool_runs, gs_text, gs_model,
                 fc_chunks, fc_i, temp_files, list_file, output_file, fc_result>>

(***************************************************************************)
(* generate_speech_with_model (lines 330-358); its single request is       *)
(* generate_speech_with_model_single (lines 360-401), whose body is that   *)
(* of generate_speech with the caller's model                              *)
(***************************************************************************)
\* Lines 349-353: `truncated`, &text[..4000] of a text of more than 4000
\* bytes, where the slice does not panic
Truncate(t) == IF ByteLen(t) > SingleLimit THEN BytePrefix(t, SingleLimit) ELSE t

\* Lines 333-356: a text of at most 4000 bytes is sent as it is; a longer one
\* goes to the concatenation path when the tool is there; otherwise its
\* first 4000 bytes are sliced off and sent, and the slice panics when byte
\* 4000 is inside a character
WmEntry ==
  /\ gs_pc = "model_entry"
  /\ gs_model' = model
  /\ IF ByteLen(gs_text) <= SingleLimit
     THEN /\ gs_pc' = "send"
          /\ gs_text' = gs_text
          /\ fc_pc' = fc_pc
          /\ gs_result' = gs_result
     ELSE IF ffmpeg
     THEN /\ gs_pc' = "concat"
          /\ gs_text' = gs_text
          /\ fc_pc' = "start"
          /\ gs_result' = gs_result
     ELSE IF SlicePanics(gs_text, SingleLimit)
     THEN /\ gs_pc' = "done"
          /\ gs_text' = gs_text
          /\ fc_pc' = fc_pc
          /\ gs_result' = Panic
     ELSE /\ gs_pc' = "send"
          /\ gs_text' = Truncate(gs_text)
          /\ fc_pc' = fc_pc
          /\ gs_result' = gs_result
  /\ UNCHANGED <<sp_vars, led_vars, co_vars, env_vars, call_vars, retry_vars, ck_vars, store_vars,
                 requests, received, last_response, tool_runs,
                 fc_chunks, fc_i, temp_files, list_file, output_file, fc_result>>

(***************************************************************************)
(* generate_speech_with_ffmpeg_concat (lines 174-328)                      *)
(***************************************************************************)
\* Line 187: the chunk of (0-based) index i in the enumeration
ChunkAtReversed(chunks, i) == chunks[Len(chunks) - i]
ChunkAt(chunks, i) == chunks[i + 1]

\* Line 248: the chunk's temporary file joins the Vec
PushTempFileFront(files, audio) == <<audio>> \o files
PushTempFile(files, audio) == Append(files, audio)

\* Line 251: temp_files.len() == 1
IsSingleSegmentOffByOne(files) == Len(files) = 0
IsSingleSegment(files) == Len(files) = 1

\* NamedTempFile's Drop removes the file: leaving the function drops the
\* files it still owns, and none of them is left
DropTempFilesKept(files) == files
DropTempFiles(files) == <<>>

\* Lines 264-277: one `file '<path>'` line per temporary file, in the
\* Vec's order; a file is named by its position in the Vec
Manifest(files) == [k \in 1..Len(files) |-> k]

\* Lines 177-185
FcStart ==
  /\ fc_pc = "start"
  /\ LET chunks == split_text_semantically(gs_text, ChunkLimit)
     IN  /\ fc_chunks' = chunks
         /\ fc_i' = 0
         /\ temp_files' = <<>>
         /\ IF chunks = <<>>
            THEN /\ fc_result' = Err(ValidationError(<<"No valid text chunks found">>))
                 /\ fc_pc' = "done"
            ELSE /\ fc_result' = Pending
                 /\ fc_pc' = "loop"
  /\ UNCHANGED <<sp_vars, led_vars, co_vars, env_vars, call_vars, retry_vars, ck_vars, store_vars,
                 requests, received, last_response, tool_runs, gs_vars, list_file, output_file>>

\* Lines 187-194: the next chunk, after the delay if it is not the first
FcNextChunk ==
  /\ fc_pc = "loop"
  /\ fc_i < Len(fc_chunks)
  /\ fc_pc' = IF fc_i > 0 THEN "sleep" ELSE "send"
  /\ UNCHANGED <<sp_vars, led_vars, co_vars, env_vars, call_vars, retry_vars, ck_vars, store_vars,
                 requests, received, last_response, tool_runs, gs_vars,
                 fc_chunks, fc_i, temp_files, list_file, output_file, fc_result>>

\* Line 193: the 200 ms delay is over
FcWake ==
  /\ fc_pc = "sleep"
  /\ fc_pc' = "send"
  /\ UNCHANGED <<sp_vars, led_vars, co_vars, env_vars, call_vars, retry_vars, ck_vars, store_vars,
                 requests, received, last_response, tool_runs, gs_vars,
                 fc_chunks, fc_i, temp_files, list_file, output_file, fc_result>>

\* Lines 197-211: the request for chunk fc_i is sent
FcSend ==
  /\ fc_pc = "send"
  /\ requests' = Append(requests, [input |-> ChunkAt(fc_chunks, fc_i), voice |-> voice,
                                   model |-> DEFAULT_MODEL])
  /\ fc_pc' = "await"
  /\ UNCHANGED <<sp_vars, led_vars, co_vars, env_vars, call_vars, retry_vars, ck_vars, store_vars,
                 received, last_response, tool_runs, gs_vars,
                 fc_chunks, fc_i, temp_files, list_file, output_file, fc_result>>

\* Lines 212-249: the response of chunk fc_i; audio goes to a new temporary
\* file, an error ends the call (and drops the temporary files)
FcRespond(resp) ==
  /\ fc_pc = "await"
  /\ received' = received + 1
  /\ last_response' = Some(resp)
  /\ LET r == ClassifyChunkResponse(resp)
     IN  IF r.tag = "ok"
         THEN /\ temp_files' = PushTempFile(temp_files, r.value)
              /\ fc_i' = fc_i + 1
              /\ fc_pc' = "loop"
              /\ fc_result' = fc_result
         ELSE /\ temp_files' = DropTempFiles(temp_files)
              /\ fc_i' = fc_i
              /\ fc_pc' = "done"
              /\ fc_result' = r
  /\ UNCHANGED <<sp_vars, led_vars, co_vars, env_vars, call_vars, retry_vars, ck_vars, store_vars,
                 requests, tool_runs, gs_vars, fc_chunks, list_file, output_file>>

\* Lines 251-258: a single chunk is read back and returned
FcReturnSingle ==
  /\ fc_pc = "loop"
  /\ fc_i = Len(fc_chunks)
  /\ IsSingleSegment(temp_files)
  /\ fc_result' = Ok(temp_files[1])
  /\ temp_files' = DropTempFiles(temp_files)
  /\ fc_pc' = "done"
  /\ UNCHANGED <<sp_vars, led_vars, co_vars, env_vars, call_vars, retry_vars, ck_vars, store_vars,
                 requests, received, last_response, tool_runs, gs_vars, fc_chunks, fc_i,
                 list_file, output_file>>

\* Lines 260-300: the manifest and the (still empty) output file are
\* created and the tool is started on them
FcRunTool ==
  /\ fc_pc = "loop"
  /\ fc_i = Len(fc_chunks)
  /\ ~IsSingleSegment(temp_files)
  /\ list_file' = Some(Manifest(temp_files))
  /\ output_file' = Some(<<>>)
  /\ tool_runs' = tool_runs + 1
  /\ fc_pc' = "tool"
  /\ UNCHANGED <<sp_vars, led_vars, co_vars, env_vars, call_vars, retry_vars, ck_vars, store_vars,
                 requests, received, last_response, gs_vars, fc_chunks, fc_i, temp_files, fc_result>>

\* Lines 300-320: the tool's outcome; a failure ends the call (and drops
\* the temporary files, manifest and output file); on success the tool has
\* written the output file, which is read back into the buffer, and the
\* call goes on to track_usage(..).await of line 325
FcConcatenate(tool) ==
  /\ fc_pc = "tool"
  /\ CASE tool = "spawn_failed" ->
            /\ fc_result' = Err(NetworkError(<<"Failed to run ffmpeg: ", "spawn failed">>))
            /\ temp_files' = DropTempFiles(temp_files)
            /\ list_file' = DropTempFiles(list_file)
            /\ output_file' = DropTempFiles(output_file)
            /\ fc_pc' = "done"
       [] tool = "exit_failure" ->
            /\ fc_result' = Err(NetworkError(<<"ffmpeg failed: ", "stderr">>))
            /\ temp_files' = DropTempFiles(temp_files)
            /\ list_file' = DropTempFiles(list_file)
            /\ output_file' = DropTempFiles(output_file)
            /\ fc_pc' = "done"
       [] tool = "ok" ->
            /\ output_file' = Some(FfmpegConcat(list_file[1], temp_files))
            /\ fc_pc' = "track"
            /\ UNCHANGED <<fc_result, temp_files, list_file>>
  /\ UNCHANGED <<sp_vars, led_vars, co_vars, env_vars, call_vars, retry_vars, ck_vars, store_vars,
                 requests, received, last_response, tool_runs, gs_vars, fc_chunks, fc_i>>

\* Lines 325-327: one usage record for the whole text is written, the
\* write's result ignored (a panic of track_usage is no result and unwinds
\* the call), and the buffer is returned. Leaving the function drops the
\* temporary files, manifest and output file.
FcTrackReturn(write_ok) ==
  /\ fc_pc = "track"
  /\ LET t == track_usage(now, db, database, write_ok, gs_text, voice,
                          DEFAULT_MODEL, TRUE, None)
     IN  /\ fc_result' = IF t.res = Panic THEN Panic ELSE Ok(output_file[1])
         /\ db' = t.db
         /\ track_res' = t.res
  /\ temp_files' = DropTempFiles(temp_files)
  /\ list_file' = DropTempFiles(list_file)
  /\ output_file' = DropTempFiles(output_file)
  /\ fc_pc' = "done"
  /\ UNCHANGED <<sp_vars, led_vars, co_vars, env_vars, call_vars, retry_vars, ck_vars,
                 requests, received, last_response, tool_runs, gs_vars, fc_chunks, fc_i>>

(***************************************************************************)
(* generate_speech_with_retry (lines 403-422)                              *)
(***************************************************************************)
CallRetry(t, v) ==
  /\ pc = "idle"
  /\ op' = "retry"
  /\ text' = t
  /\ voice' = v
  /\ pc' = "retry_attempt"
  /\ UNCHANGED <<sp_vars, led_vars, co_vars, env_vars, model, result, retry_vars, ck_vars, store_vars,
                 requests, received, last_response, tool_runs, gs_vars, fc_vars>>

\* Lines 407-408: the loop body starts an attempt
RetryAttempt ==
  /\ pc = "retry_attempt"
  /\ attempt < MAX_RETRIES
  /\ gs_pc' = "entry"
  /\ gs_text' = text
  /\ gs_result' = Pending
  /\ pc' = "retry_await"
  /\ UNCHANGED <<sp_vars, led_vars, co_vars, env_vars, op, text, voice, model, result, retry_vars, ck_vars,
                 store_vars, requests, received, last_response, tool_runs, gs_model, fc_vars>>

\* Lines 408-418: the attempt's outcome is matched; a panic of
\* generate_speech is no outcome to match and unwinds the loop
RetryHandle ==
  /\ pc = "retry_await"
  /\ gs_pc = "done"
  /\ IF gs_result = Panic
     THEN /\ result' = Panic
          /\ pc' = "done"
          /\ waits' = waits
     ELSE LET m == RetryMatch(gs_result, attempt)
          IN  IF m.return
              THEN /\ result' = m.result
                   /\ pc' = "done"
                   /\ waits' = waits
              ELSE /\ result' = result
                   /\ pc' = "retry_sleep"
                   /\ waits' = Append(waits, m.delay)
  /\ outcomes' = Append(outcomes, gs_result)
  /\ gs_pc' = "idle"
  /\ UNCHANGED <<sp_vars, led_vars, co_vars, env_vars, op, text, voice, model, attempt, ck_vars, store_vars,
                 requests, received, last_response, tool_runs, gs_text, gs_model, gs_result, fc_vars>>

\* Line 416: the backoff sleep is over, the loop goes on
RetryWake ==
  /\ pc = "retry_sleep"
  /\ attempt' = attempt + 1
  /\ pc' = "retry_attempt"
  /\ UNCHANGED <<sp_vars, led_vars, co_vars, env_vars, op, text, voice, model, result, waits, outcomes, ck_vars,
                 store_vars, requests, received, last_response, tool_runs, gs_vars, fc_vars>>

(***************************************************************************)
(* generate_speech called directly                                         *)
(***************************************************************************)
CallSpeech(t, v) ==
  /\ pc = "idle"
  /\ op' = "speech"
  /\ text' = t
  /\ voice' = v
  /\ pc' = "speech_await"
  /\ gs_pc' = "entry"
  /\ gs_text' = t
  /\ UNCHANGED <<sp_vars, led_vars, co_vars, env_vars, model, result, retry_vars, ck_vars, store_vars,
                 requests, received, last_response, tool_runs, gs_model, gs_result, fc_vars>>

SpeechReturn ==
  /\ pc = "speech_await"
  /\ gs_pc = "done"
  /\ result' = gs_result
  /\ pc' = "done"
  /\ gs_pc' = "idle"
  /\ UNCHANGED <<sp_vars, led_vars, co_vars, env_vars, op, text, voice, model, retry_vars, ck_vars, store_vars,
                 requests, received, last_response, tool_runs, gs_text, gs_model, gs_result, fc_vars>>

(***************************************************************************)
(* generate_speech_chunked (lines 477-507) and                             *)
(* generate_speech_tracked_single (lines 509-524)                          *)
(***************************************************************************)
\* Lines 481-491: a text of at most MAX_CHUNK_SIZE bytes is the only
\* "chunk", a longer one is split
CallChunked(t, v) ==
  /\ pc = "idle"
  /\ op' = "chunked"
  /\ text' = t
  /\ voice' = v
  /\ ck_chunks' = IF ByteLen(t) <= ChunkLimit THEN <<t>>
                  ELSE split_text_semantically(t, ChunkLimit)
  /\ pc' = "ck_loop"
  /\ UNCHANGED <<sp_vars, led_vars, co_vars, env_vars, model, result, retry_vars, ck_i, audio_chunks,
                 store_vars, requests, received, last_response, tool_runs, gs_vars, fc_vars>>

\* Lines 493-498: the next chunk, after the delay if it is not the first
ChunkedNextChunk ==
  /\ pc = "ck_loop"
  /\ ck_i < Len(ck_chunks)
  /\ pc' = IF ck_i > 0 THEN "ck_sleep" ELSE "ts_generate"
  /\ UNCHANGED <<sp_vars, led_vars, co_vars, env_vars, op, text, voice, model, result, retry_vars, ck_vars,
                 store_vars, requests, received, last_response, tool_runs, gs_vars, fc_vars>>

\* Line 497: the 200 ms delay is over
ChunkedWake ==
  /\ pc = "ck_sleep"
  /\ pc' = "ts_generate"
  /\ UNCHANGED <<sp_vars, led_vars, co_vars, env_vars, op, text, voice, model, result, retry_vars, ck_vars,
                 store_vars, requests, received, last_response, tool_runs, gs_vars, fc_vars>>

\* Line 513: generate_speech_tracked_single calls generate_speech
TrackedSingleGenerate ==
  /\ pc = "ts_generate"
  /\ gs_pc' = "entry"
  /\ gs_text' = ChunkAt(ck_chunks, ck_i)
  /\ gs_result' = Pending
  /\ pc' = "ts_await"
  /\ UNCHANGED <<sp_vars, led_vars, co_vars, env_vars, op, text, voice, model, result, retry_vars, ck_vars,
                 store_vars, requests, received, last_response, tool_runs, gs_model, fc_vars>>

\* Lines 513-523 and 485-486, 500-502: the outcome is recorded with
\* track_usage(..)?; then the audio is collected or the error returned. A
\* panic of generate_speech or of track_usage unwinds the call.
TrackedSingleTrackIgnoringWrite(write_ok) ==
  /\ pc = "ts_await"
  /\ gs_pc = "done"
  /\ IF gs_result = Panic
     THEN /\ result' = Panic
          /\ pc' = "done"
          /\ UNCHANGED <<ck_i, audio_chunks, store_vars>>
     ELSE LET ok == gs_result.tag = "ok"
              t == track_usage(now, db, database, write_ok, gs_text, voice, DEFAULT_MODEL, ok,
                               IF ok THEN None ELSE Some(to_string(gs_result.error)))
          IN  /\ db' = t.db
              /\ track_res' = t.res
              /\ IF t.res = Panic
                 THEN /\ result' = Panic
                      /\ pc' = "done"
                      /\ UNCHANGED <<ck_i, audio_chunks>>
                 ELSE IF ok
                 THEN /\ audio_chunks' = Append(audio_chunks, gs_result.value)
                      /\ ck_i' = ck_i + 1
                      /\ pc' = "ck_loop"
                      /\ result' = result
                 ELSE /\ result' = gs_result
                      /\ pc' = "done"
                      /\ UNCHANGED <<ck_i, audio_chunks>>
  /\ gs_pc' = "idle"
  /\ UNCHANGED <<sp_vars, led_vars, co_vars, env_vars, op, text, voice, model, retry_vars, ck_chunks,
                 requests, received, last_response, tool_runs, gs_text, gs_model, gs_result, fc_vars>>
TrackedSingleTrack(write_ok) ==
  /\ pc = "ts_await"
  /\ gs_pc = "done"
  /\ IF gs_result = Panic
     THEN /\ result' = Panic
          /\ pc' = "done"
          /\ UNCHANGED <<ck_i, audio_chunks, store_vars>>
     ELSE LET ok == gs_result.tag = "ok"
              t == track_usage(now, db, database, write_ok, gs_text, voice, DEFAULT_MODEL, ok,
                               IF ok THEN None ELSE Some(to_string(gs_result.error)))
          IN  /\ db' = t.db
              /\ track_res' = t.res
              /\ IF t.res = Panic
                 THEN /\ result' = Panic
                      /\ pc' = "done"
                      /\ UNCHANGED <<ck_i, audio_chunks>>
                 ELSE IF t.res.tag = "err"
                 THEN /\ result' = Err(t.res.error)
                      /\ pc' = "done"
                      /\ UNCHANGED <<ck_i, audio_chunks>>
                 ELSE IF ok
                 THEN /\ audio_chunks' = Append(audio_chunks, gs_result.value)
                      /\ ck_i' = ck_i + 1
                      /\ pc' = "ck_loop"
                      /\ result' = result
                 ELSE /\ result' = gs_result
                      /\ pc' = "done"
                      /\ UNCHANGED <<ck_i, audio_chunks>>
  /\ gs_pc' = "idle"
  /\ UNCHANGED <<sp_vars, led_vars, co_vars, env_vars, op, text, voice, model, retry_vars, ck_chunks,
                 requests, received, last_response, tool_runs, gs_text, gs_model, gs_result, fc_vars>>

\* Lines 486, 505: all chunks done
ChunkedReturn ==
  /\ pc = "ck_loop"
  /\ ck_i = Len(ck_chunks)
  /\ result' = Ok(audio_chunks)
  /\ pc' = "done"
  /\ UNCHANGED <<sp_vars, led_vars, co_vars, env_vars, op, text, voice, model, retry_vars, ck_vars,
                 store_vars, requests, received, last_response, tool_runs, gs_vars, fc_vars>>

(***************************************************************************)
(* generate_speech_with_model called directly                              *)
(***************************************************************************)
CallModel(t, v, m) ==
  /\ pc = "idle"
  /\ op' = "model"
  /\ text' = t
  /\ voice' = v
  /\ model' = m
  /\ pc' = "model_await"
  /\ gs_pc' = "model_entry"
  /\ gs_text' = t
  /\ UNCHANGED <<sp_vars, led_vars, co_vars, env_vars, result, retry_vars, ck_vars, store_vars,
                 requests, received, last_response, tool_runs, gs_model, gs_result, fc_vars>>

ModelReturn ==
  /\ pc = "model_await"
  /\ gs_pc = "done"
  /\ result' = gs_result
  /\ pc' = "done"
  /\ gs_pc' = "idle"
  /\ UNCHANGED <<sp_vars, led_vars, co_vars, env_vars, op, text, voice, model, retry_vars, ck_vars,
                 store_vars, requests, received, last_response, tool_runs, gs_text, gs_model,
                 gs_result, fc_vars>>

(***************************************************************************)
(* The commands generate_speech and generate_speech_with_model of main.rs  *)
(***************************************************************************)
\* str::trim: leading and trailing whitespace removed
RECURSIVE TrimStart(_)
TrimStart(s) ==
  IF s = <<>> \/ ~IsWhitespace(Head(s)) THEN s ELSE TrimStart(Tail(s))

RECURSIVE TrimEnd(_)
TrimEnd(s) ==
  IF s = <<>> \/ ~IsWhitespace(s[Len(s)]) THEN s
  ELSE TrimEnd(SubSeq(s, 1, Len(s) - 1))

Trim(s) == TrimEnd(TrimStart(s))

\* tts.rs lines 84-91
validate_text_untrimmed(t) ==
  IF t = <<>>
  THEN Err(ValidationError(<<"Text cannot be empty">>))
  ELSE Ok(<<>>)
validate_text(t) ==
  IF Trim(t) = <<>>
  THEN Err(ValidationError(<<"Text cannot be empty">>))
  ELSE Ok(<<>>)

\* tts.rs lines 95-102
VALID_VOICE_IDS ==
  { <<"a", "l", "l", "o", "y">>, <<"e", "c", "h", "o">>, <<"f", "a", "b", "l", "e">>,
    <<"o", "n", "y", "x">>, <<"n", "o", "v", "a">>,
    <<"s", "h", "i", "m", "m", "e", "r">> }

\* tts.rs lines 93-106
is_valid_voice(voice_id) ==
  LET trimmed == Trim(voice_id)
  IN  trimmed # <<>> /\ trimmed \in VALID_VOICE_IDS

\* the alphabet of base64's STANDARD engine
Base64Alphabet ==
  << "A", "B", "C", "D", "E", "F", "G", "H", "I", "J", "K", "L", "M",
     "N", "O", "P", "Q", "R", "S", "T", "U", "V", "W", "X", "Y", "Z",
     "a", "b", "c", "d", "e", "f", "g", "h", "i", "j", "k", "l", "m",
     "n", "o", "p", "q", "r", "s", "t", "u", "v", "w", "x", "y", "z",
     "0", "1", "2", "3", "4", "5", "6", "7", "8", "9", "+", "/" >>

Base64Char(n) == Base64Alphabet[(n % 64) + 1]

\* general_purpose::STANDARD.encode (main.rs lines 32, 61): three bytes make
\* four characters, a shorter tail is padded with '='
RECURSIVE Base64Encode(_)
Base64Encode(bytes) ==
  CASE Len(bytes) = 0 -> <<>>
    [] Len(bytes) = 1 ->
         LET n == bytes[1] * 65536
         IN  <<Base64Char(n \div 262144), Base64Char(n \div 4096), "=", "=">>
    [] Len(bytes) = 2 ->
         LET n == bytes[1] * 65536 + bytes[2] * 256
         IN  <<Base64Char(n \div 262144), Base64Char(n \div 4096),
               Base64Char(n \div 64), "=">>
    [] OTHER ->
         LET n == bytes[1] * 65536 + bytes[2] * 256 + bytes[3]
         IN  <<Base64Char(n \div 262144), Base64Char(n \div 4096),
               Base64Char(n \div 64), Base64Char(n)>>
             \o Base64Encode(SubSeq(bytes, 4, Len(bytes)))

\* main.rs lines 33 and 62
DataUrl(audio_data) == <<"data:audio/mpeg;base64,">> \o Base64Encode(audio_data)

\* what may happen before the service exists (main.rs lines 14-19, 40-45):
\* the key is not in the environment, or the database cannot be opened
CommandSetups == {"ok", "no_api_key", "db_error"}

\* tts.rs lines 72-73: what with_database returns when Database::new fails
WITH_DATABASE_ERROR == UnknownError(<<"Database error: ", "(code: 14) unable to open database file">>)

\* Lines 14-25 and 40-51 of main.rs: the early returns of a command, None
\* when it goes on to synthesize
CommandPrecheck(t, v, setup) ==
  CASE setup = "no_api_key" ->
         Some(Err(<<"OPENAI_API_KEY environment variable not set">>))
    [] setup = "db_error" ->
         Some(Err(to_string(WITH_DATABASE_ERROR)))
    [] validate_text(t).tag = "err" ->
         Some(Err(to_string(validate_text(t).error)))
    [] ~is_valid_voice(v) ->
         Some(Err(<<"Invalid voice ID: ">> \o v))
    [] OTHER -> None

\* main.rs lines 13-28: the command generate_speech up to its call of
\* generate_speech_tracked
CmdGenerate(t, v, setup) ==
  /\ pc = "idle"
  /\ database
  /\ op' = "cmd_generate"
  /\ text' = t
  /\ voice' = v
  /\ LET early == CommandPrecheck(t, v, setup)
     IN  IF early # None
         THEN /\ result' = early[1]
              /\ pc' = "done"
              /\ UNCHANGED <<gs_pc, gs_text>>
         ELSE /\ result' = result
              /\ pc' = "cg_await"
              /\ gs_pc' = "entry"
              /\ gs_text' = t
  /\ UNCHANGED <<sp_vars, led_vars, co_vars, env_vars, model, retry_vars, ck_vars, store_vars,
                 requests, received, last_response, tool_runs, gs_model, gs_result, fc_vars>>

\* generate_speech_tracked (called at main.rs line 28; its body is not among
\* the sources): the text is synthesized and the attempt recorded, a failed
\* write of a failure's record being swallowed; then main.rs lines 28-35.
\* A panic of generate_speech or of track_usage unwinds the command.
CmdGenerateReturn(write_ok) ==
  /\ pc = "cg_await"
  /\ gs_pc = "done"
  /\ IF gs_result = Panic
     THEN /\ result' = Panic
          /\ UNCHANGED store_vars
     ELSE LET ok == gs_result.tag = "ok"
              t == track_usage(now, db, database, write_ok, text, voice, DEFAULT_MODEL, ok,
                               IF ok THEN None ELSE Some(to_string(gs_result.error)))
          IN  /\ db' = t.db
              /\ track_res' = t.res
              /\ result' = IF t.res = Panic THEN Panic
                           ELSE IF ~ok THEN Err(to_string(gs_result.error))
                           ELSE IF t.res.tag = "err" THEN Err(to_string(t.res.error))
                           ELSE Ok(DataUrl(gs_result.value))
  /\ pc' = "done"
  /\ gs_pc' = "idle"
  /\ UNCHANGED <<sp_vars, led_vars, co_vars, env_vars, op, text, voice, model, retry_vars, ck_vars,
                 requests, received, last_response, tool_runs, gs_text, gs_model, gs_result,
                 fc_vars>>

\* main.rs lines 39-54: the command generate_speech_with_model up to its
\* call of TTSService::generate_speech_with_model
CmdModel(t, v, m, setup) ==
  /\ pc = "idle"
  /\ database
  /\ op' = "cmd_model"
  /\ text' = t
  /\ voice' = v
  /\ model' = m
  /\ LET early == CommandPrecheck(t, v, setup)
     IN  IF early # None
         THEN /\ result' = early[1]
              /\ pc' = "done"
              /\ UNCHANGED <<gs_pc, gs_text>>
         ELSE /\ result' = result
              /\ pc' = "cm_await"
              /\ gs_pc' = "model_entry"
              /\ gs_text' = t
  /\ UNCHANGED <<sp_vars, led_vars, co_vars, env_vars, retry_vars, ck_vars, store_vars,
                 requests, received, last_response, tool_runs, gs_model, gs_result, fc_vars>>

\* main.rs lines 54-64: an error returns at once; audio is recorded (the
\* write's result ignored) and returned as a data URL. `let _ =` discards
\* a Result, not a panic: a panic of generate_speech_with_model or of
\* track_usage unwinds the command, which returns nothing.
CmdModelReturn(write_ok) ==
  /\ pc = "cm_await"
  /\ gs_pc = "done"
  /\ IF gs_result = Panic
     THEN /\ result' = Panic
          /\ UNCHANGED store_vars
     ELSE IF gs_result.tag = "err"
     THEN /\ result' = Err(to_string(gs_result.error))
          /\ UNCHANGED store_vars
     ELSE LET t == track_usage(now, db, database, write_ok, text, voice, model, TRUE, None)
          IN  /\ db' = t.db
              /\ track_res' = t.res
              /\ result' = IF t.res = Panic THEN Panic
                           ELSE Ok(DataUrl(gs_result.value))
  /\ pc' = "done"
  /\ gs_pc' = "idle"
  /\ UNCHANGED <<sp_vars, led_vars, co_vars, env_vars, op, text, voice, model, retry_vars, ck_vars,
                 requests, received, last_response, tool_runs, gs_text, gs_model, gs_result,
                 fc_vars>>

Next ==
  \/ pc = "idle" /\ \E t \in RetryTexts, v \in VoiceIds : CallRetry(t, v)
  \/ RetryAttempt
  \/ RetryHandle
  \/ RetryWake
  \/ pc = "idle" /\ \E t \in PipeTexts, v \in VoiceIds : CallSpeech(t, v)
  \/ SpeechReturn
  \/ pc = "idle" /\ \E t \in PipeTexts, v \in VoiceIds : CallChunked(t, v)
  \/ ChunkedNextChunk
  \/ ChunkedWake
  \/ TrackedSingleGenerate
  \/ \E write_ok \in BOOLEAN : TrackedSingleTrack(write_ok)
  \/ ChunkedReturn
  \/ pc = "idle" /\ \E t \in CmdTexts, v \in VoiceIds, m \in ModelIds :
        CallModel(t, v, m)
  \/ ModelReturn
  \/ pc = "idle" /\ \E t \in CmdTexts, v \in CmdVoiceIds, setup \in CommandSetups :
        CmdGenerate(t, v, setup)
  \/ \E write_ok \in BOOLEAN : CmdGenerateReturn(write_ok)
  \/ pc = "idle" /\ \E t \in CmdTexts, v \in CmdVoiceIds, m \in ModelIds,
                       setup \in CommandSetups :
        CmdModel(t, v, m, setup)
  \/ \E write_ok \in BOOLEAN : CmdModelReturn(write_ok)
  \/ GsEntry
  \/ WmEntry
  \/ GsSend
  \/ \E resp \in Responses : GsRespond(resp)
  \/ GsConcatReturn
  \/ FcStart
  \/ FcNextChunk
  \/ FcWake
  \/ FcSend
  \/ \E resp \in Responses : FcRespond(resp)
  \/ FcReturnSingle
  \/ FcRunTool
  \/ \E tool \in ToolOutcomes : FcConcatenate(tool)
  \/ \E write_ok \in BOOLEAN : FcTrackReturn(write_ok)

Spec == Init /\ [][Next]_vars

(***************************************************************************)
(* SpecSplit: the chunker applied to every bounded input                   *)
(***************************************************************************)
\* The text is not empty: split_text_semantically is private and its callers
\* hand it only texts longer than a limit (lines 110 and 177, 481 and 489).
SplitInit ==
  /\ sp_pc = "ready"
  /\ sp_text \in SeqsUpTo(Chars, MaxLen) \ {<<>>}
  /\ sp_max \in 1..MaxSize
  /\ sp_chunks = <<>>
  /\ database = FALSE
  /\ ffmpeg = FALSE
  /\ ServiceIdle

\* one call of split_text_semantically(text, max_size)
Split ==
  /\ sp_pc = "ready"
  /\ sp_chunks' = split_text_semantically(sp_text, sp_max)
  /\ sp_pc' = "done"
  /\ UNCHANGED <<sp_text, sp_max, led_vars, co_vars, env_vars, call_vars, retry_vars, ck_vars,
                 store_vars, requests, received, last_response, tool_runs, gs_vars, fc_vars>>

SplitNext == Split

SpecSplit == SplitInit /\ [][SplitNext]_vars

(***************************************************************************)
(* SpecLedger: the Database driven through its public methods              *)
(***************************************************************************)
\* the clock runs over the days 0..MaxDay
MaxDay == 1
\* at most this many records are ever inserted
MaxInserts == 2
\* the limits passed to get_usage_records are -1..MaxLimit
MaxLimit == 2
\* at most this many snapshots are ever cached
MaxCaches == 2

\* the instants of a day that are told apart: an early and a late one
Tods == {0, 1}

\* the window lengths passed as `days`
WindowDays == 0..MaxDay

LedgerVoices == { <<"a", "l", "l", "o", "y">>, <<"e", "c", "h", "o">> }

\* the records handed to record_usage at time t: as in track_usage, the
\* only caller, the timestamp is Utc::now()
LedgerRecords(t) ==
  { [ id |-> None,
      timestamp |-> t,
      text |-> <<"h", "i">>,
      character_count |-> 2,
      voice_id |-> v,
      model_id |-> DEFAULT_MODEL,
      success |-> ok,
      error_message |-> IF ok THEN None ELSE Some(<<"boom">>) ] :
    v \in LedgerVoices, ok \in BOOLEAN }

\* everything but the ledger and its clock
svc_vars == <<sp_vars, co_vars, env_vars, call_vars, retry_vars, ck_vars, track_res,
              requests, received, last_response, tool_runs, gs_vars, fc_vars>>

LedgerInit ==
  /\ sp_pc = "off"
  /\ sp_text = <<>>
  /\ sp_max = 1
  /\ sp_chunks = <<>>
  /\ database = TRUE
  /\ ffmpeg = FALSE
  /\ ServiceIdle

\* time passes
Tick ==
  /\ \/ now.tod = 0 /\ now' = [now EXCEPT !.tod = 1]
     \/ now.tod = 1 /\ now.day < MaxDay /\ now' = [day |-> now.day + 1, tod |-> 0]
  /\ led' = NoCall
  /\ UNCHANGED <<svc_vars, inflight, db, cache, given, snaps>>

\* Database::record_usage (lines 118-137)
DbRecordUsage(record) ==
  /\ db.last_id < MaxInserts
  /\ LET r == record_usage(db, record)
     IN /\ db' = r.db
        /\ led' = [name |-> "record_usage", res |-> Ok(r.id)]
  /\ given' = Append(given, record)
  /\ UNCHANGED <<svc_vars, inflight, now, cache, snaps>>

\* Database::get_usage_records (lines 139-167)
DbGetUsageRecords(limit, days) ==
  /\ led' = [name |-> "get_usage_records", limit |-> limit, days |-> days,
             res |-> get_usage_records(db, now, limit, days)]
  /\ UNCHANGED <<svc_vars, inflight, now, db, cache, given, snaps>>

\* Database::get_usage_stats (lines 169-242) is three statements, awaited
\* one after the other outside any transaction: other calls on the pool
\* run between them. Lines 171-190: the call starts and its first
\* statement reads the totals.
DbGetUsageStats(days) ==
  /\ inflight = NoCall
  /\ inflight' = [name |-> "get_usage_stats", days |-> days, awaited |-> 1,
                  totals |-> StatsTotals(db, now, days)]
  /\ UNCHANGED <<svc_vars, now, db, cache, led, given, snaps>>

\* Lines 193-207: the second statement reads the most used voice
DbStatsMostUsedVoice ==
  /\ inflight.name = "get_usage_stats"
  /\ inflight.awaited = 1
  /\ inflight' = [name |-> "get_usage_stats", days |-> inflight.days, awaited |-> 2,
                  totals |-> inflight.totals,
                  most_used_voice |-> StatsMostUsedVoice(db, now, inflight.days)]
  /\ UNCHANGED <<svc_vars, now, db, cache, led, given, snaps>>

\* Lines 210-242: the third statement reads the daily usage and the call
\* returns the UsageStats
DbStatsDailyUsage ==
  /\ inflight.name = "get_usage_stats"
  /\ inflight.awaited = 2
  /\ led' = [name |-> "get_usage_stats", days |-> inflight.days,
             res |-> Ok(UsageStats(inflight.totals, inflight.most_used_voice,
                                   StatsDailyUsage(db, now, inflight.days)))]
  /\ inflight' = NoCall
  /\ UNCHANGED <<svc_vars, now, db, cache, given, snaps>>

\* Database::cleanup_old_records (lines 288-300)
DbCleanupOldRecords(days) ==
  /\ LET r == cleanup_old_records(db, now, days)
     IN /\ db' = r.db
        /\ led' = [name |-> "cleanup_old_records", days |-> days, res |-> r.res]
  /\ UNCHANGED <<svc_vars, inflight, now, cache, given, snaps>>

\* the calls that only read
Queries == {"get_usage_records", "get_usage_stats"}

\* A query leaves the database and the clock as they are: it is taken as
\* the last call of a run, after any sequence of the other calls.
LedgerNext ==
  \/ led.name \notin Queries /\ Tick
  \/ led.name \notin Queries /\ \E record \in LedgerRecords(now) : DbRecordUsage(record)
  \/ led.name \notin Queries /\ inflight = NoCall /\
       \E limit \in -1..MaxLimit, days \in {None} \cup { Some(d) : d \in WindowDays } :
          DbGetUsageRecords(limit, days)
  \/ led.name \notin Queries /\ \E days \in WindowDays : DbGetUsageStats(days)
  \/ DbStatsMostUsedVoice
  \/ DbStatsDailyUsage
  \/ led.name \notin Queries /\ \E days \in WindowDays : DbCleanupOldRecords(days)

SpecLedger == LedgerInit /\ [][LedgerNext]_vars

(***************************************************************************)
(* SpecUsage: the service's ledger methods (tts.rs lines 424-475, 526-542) *)
(***************************************************************************)
\* Line 428: get_user_info sums the usage of the last 30 days
USER_INFO_DAYS == 30

\* at most this many records are tracked in a run of SpecUsage
MaxTracked == 1

\* texts reach one byte over the limit of the stored text
UsageMaxLen == StoreLimit + 1

\* n times the letter a
Letters_a(n) == [k \in 1..n |-> "a"]

\* the texts tracked: plain ones, and ones that begin or end with a
\* character of two bytes
UsageTexts ==
  { Letters_a(n) : n \in 0..UsageMaxLen }
    \cup { <<"é">> \o Letters_a(n) : n \in 0..(UsageMaxLen - 1) }
    \cup { Letters_a(n) \o <<"é">> : n \in 0..(UsageMaxLen - 1) }

TTS_DB_UNAVAILABLE == UnknownError(<<"Database not available">>)

\* what a failed query is mapped to (lines 529, 538)
TTS_DB_ERROR == UnknownError(<<"Database error: ", "read failed">>)

\* mutant of get_usage_history: without a ledger, an empty history
tts_get_usage_history_empty(db_, t, configured, read_ok, limit, days) ==
  IF configured
  THEN IF read_ok THEN get_usage_records(db_, t, limit, days) ELSE Err(TTS_DB_ERROR)
  ELSE Ok(<<>>)

\* tts.rs lines 535-542: get_usage_history
tts_get_usage_history(db_, t, configured, read_ok, limit, days) ==
  IF configured
  THEN IF read_ok THEN get_usage_records(db_, t, limit, days) ELSE Err(TTS_DB_ERROR)
  ELSE Err(TTS_DB_UNAVAILABLE)

\* tts.rs lines 436-443: the snapshot get_user_info builds at time t
NewUserInfo(character_used, t) ==
  [ subscription_tier |-> "Pay-per-use",
    character_limit |-> -1,
    character_used |-> character_used,
    characters_remaining |-> -1,
    reset_date |-> t,
    last_updated |-> t ]

UsageInit ==
  /\ sp_pc = "off"
  /\ sp_text = <<>>
  /\ sp_max = 1
  /\ sp_chunks = <<>>
  /\ database \in BOOLEAN
  /\ ffmpeg = FALSE
  /\ ServiceIdle

\* TTSService::track_usage (lines 453-475)
TrackUsage(t, v, m, success, write_ok) ==
  /\ db.last_id < MaxTracked
  /\ LET r == track_usage(now, db, database, write_ok, t, v, m, success,
                          IF success THEN None ELSE Some(<<"boom">>))
     IN /\ db' = r.db
        /\ led' = [name |-> "track_usage", text |-> t, res |-> r.res]
  /\ UNCHANGED <<svc_vars, inflight, now, cache, given, snaps>>

\* A query of get_usage_stats failed. TTSService::get_usage_stats maps the
\* error (line 529); get_user_info takes 0 characters (line 430), builds the
\* snapshot (lines 436-443) and goes on to the cache write.
StatsFailed ==
  IF inflight.name = "tts_get_usage_stats"
  THEN /\ led' = [name |-> "tts_get_usage_stats", days |-> inflight.days,
                  res |-> Err(TTS_DB_ERROR)]
       /\ inflight' = NoCall
  ELSE /\ inflight' = [name |-> "get_user_info", awaited |-> 3,
                       user_info |-> NewUserInfo(0, now)]
       /\ led' = led

\* TTSService::get_usage_stats (lines 526-533): without a ledger the error
\* of line 531; with one, Database::get_usage_stats is awaited, whose first
\* statement (database.rs lines 171-190) runs here. `read_ok` is whether the
\* statement succeeds.
GetUsageStats(days, read_ok) ==
  /\ inflight = NoCall
  /\ IF ~database
     THEN /\ led' = [name |-> "tts_get_usage_stats", days |-> days,
                     res |-> Err(TTS_DB_UNAVAILABLE)]
          /\ inflight' = inflight
     ELSE IF ~read_ok
     THEN /\ led' = [name |-> "tts_get_usage_stats", days |-> days,
                     res |-> Err(TTS_DB_ERROR)]
          /\ inflight' = inflight
     ELSE /\ inflight' = [name |-> "tts_get_usage_stats", days |-> days, awaited |-> 1,
                          totals |-> StatsTotals(db, now, days)]
          /\ led' = led
  /\ UNCHANGED <<svc_vars, now, db, cache, given, snaps>>

\* database.rs lines 193-207 under the service's calls: the second statement
StatsMostUsedVoiceStep(read_ok) ==
  /\ inflight.name \in {"tts_get_usage_stats", "get_user_info"}
  /\ inflight.awaited = 1
  /\ IF read_ok
     THEN /\ inflight' = [name |-> inflight.name, days |-> inflight.days, awaited |-> 2,
                          totals |-> inflight.totals,
                          most_used_voice |-> StatsMostUsedVoice(db, now, inflight.days)]
          /\ led' = led
     ELSE StatsFailed
  /\ UNCHANGED <<svc_vars, now, db, cache, given, snaps>>

\* database.rs lines 210-242 under the service's calls: the third statement.
\* TTSService::get_usage_stats returns the UsageStats; get_user_info takes
\* its total_characters (line 429) and builds the snapshot (lines 436-443).
StatsDailyUsageStep(read_ok) ==
  /\ inflight.name \in {"tts_get_usage_stats", "get_user_info"}
  /\ inflight.awaited = 2
  /\ IF ~read_ok
     THEN StatsFailed
     ELSE LET stats == UsageStats(inflight.totals, inflight.most_used_voice,
                                  StatsDailyUsage(db, now, inflight.days))
          IN IF inflight.name = "tts_get_usage_stats"
             THEN /\ led' = [name |-> "tts_get_usage_stats", days |-> inflight.days,
                             res |-> Ok(stats)]
                  /\ inflight' = NoCall
             ELSE /\ inflight' = [name |-> "get_user_info", awaited |-> 3,
                                  user_info |-> NewUserInfo(stats.total_characters, now)]
                  /\ led' = led
  /\ UNCHANGED <<svc_vars, now, db, cache, given, snaps>>

\* TTSService::get_usage_history (lines 535-542)
GetUsageHistory(limit, days, read_ok) ==
  /\ led' = [name |-> "tts_get_usage_history", limit |-> limit, days |-> days,
             res |-> tts_get_usage_history(db, now, database, read_ok, limit, days)]
  /\ UNCHANGED <<svc_vars, inflight, now, db, cache, given, snaps>>

\* TTSService::get_user_info (lines 424-451). Without a ledger nothing is
\* awaited: the snapshot with 0 characters is returned. With one,
\* get_usage_stats(30) is awaited (line 428), whose first statement runs
\* here.
GetUserInfo(read_ok) ==
  /\ inflight = NoCall
  /\ Len(snaps) < MaxCaches
  /\ IF ~database
     THEN /\ led' = [name |-> "get_user_info", res |-> Ok(NewUserInfo(0, now))]
          /\ inflight' = inflight
     ELSE IF ~read_ok
     THEN /\ inflight' = [name |-> "get_user_info", awaited |-> 3,
                          user_info |-> NewUserInfo(0, now)]
          /\ led' = led
     ELSE /\ inflight' = [name |-> "get_user_info", days |-> USER_INFO_DAYS, awaited |-> 1,
                          totals |-> StatsTotals(db, now, USER_INFO_DAYS)]
          /\ led' = led
  /\ UNCHANGED <<svc_vars, now, db, cache, given, snaps>>

\* Lines 446-450: the snapshot is written to the cache, the fourth statement
\* the call awaits, and returned. `cache_ok` is whether the write succeeds,
\* its failure is dropped by line 447.
GetUserInfoCache(cache_ok) ==
  /\ inflight.name = "get_user_info"
  /\ inflight.awaited = 3
  /\ IF cache_ok
     THEN /\ cache' = cache_user_info(cache, inflight.user_info)
          /\ snaps' = Append(snaps, inflight.user_info)
     ELSE UNCHANGED <<cache, snaps>>
  /\ led' = [name |-> "get_user_info", res |-> Ok(inflight.user_info)]
  /\ inflight' = NoCall
  /\ UNCHANGED <<svc_vars, now, db, given>>

\* The caller drops the future of a ledger call that waits for a statement:
\* the statements left are not run and nothing is returned. A call dropped
\* while it waits for the cache write has handed the statement to the
\* driver or has not: the row is written (`landed`) or is not. The cache
\* write of line 447 is what get_user_info waits for third.
DropLedgerCall(landed) ==
  /\ inflight # NoCall
  /\ landed => (inflight.name = "get_user_info" /\ inflight.awaited = 3)
  /\ inflight' = NoCall
  /\ IF landed
     THEN /\ cache' = cache_user_info(cache, inflight.user_info)
          /\ snaps' = Append(snaps, inflight.user_info)
     ELSE UNCHANGED <<cache, snaps>>
  /\ UNCHANGED <<svc_vars, now, db, led, given>>

\* Database::get_cached_user_info (lines 264-286), on the service's database
DbGetCachedUserInfo ==
  /\ database
  /\ led' = [name |-> "get_cached_user_info", res |-> get_cached_user_info(cache)]
  /\ UNCHANGED <<svc_vars, inflight, now, db, cache, given, snaps>>

\* the service's calls that only read
UsageQueries == {"tts_get_usage_stats", "tts_get_usage_history", "get_cached_user_info"}

\* As in SpecLedger a call that only reads is the last call of a run. A
\* record can be tracked while a ledger call waits between two statements.
\* generate_speech and generate_speech_with_model run without the tool, one
\* call on an untouched service.
UsageNext ==
  \/ led.name \notin UsageQueries /\ pc = "idle" /\
       \E t \in UsageTexts, v \in VoiceIds, write_ok \in BOOLEAN :
          TrackUsage(t, v, DEFAULT_MODEL, TRUE, write_ok)
  \/ led.name \notin UsageQueries /\ pc = "idle" /\
       \E days \in WindowDays, read_ok \in BOOLEAN : GetUsageStats(days, read_ok)
  \/ \E read_ok \in BOOLEAN : StatsMostUsedVoiceStep(read_ok)
  \/ \E read_ok \in BOOLEAN : StatsDailyUsageStep(read_ok)
  \/ led.name \notin UsageQueries /\ pc = "idle" /\ inflight = NoCall /\
       \E limit \in -1..MaxLimit, days \in {None} \cup { Some(d) : d \in WindowDays },
          read_ok \in BOOLEAN :
          GetUsageHistory(limit, days, read_ok)
  \/ led.name \notin UsageQueries /\ pc = "idle" /\
       \E read_ok \in BOOLEAN : GetUserInfo(read_ok)
  \/ \E cache_ok \in BOOLEAN : GetUserInfoCache(cache_ok)
  \/ \E landed \in BOOLEAN : DropLedgerCall(landed)
  \/ led.name \notin UsageQueries /\ pc = "idle" /\ DbGetCachedUserInfo
  \/ led.name = "none" /\ inflight = NoCall /\
       \E t \in UsageTexts, v \in VoiceIds, m \in ModelIds : CallModel(t, v, m)
  \/ led.name = "none" /\ inflight = NoCall /\
       \E t \in UsageTexts, v \in VoiceIds : CallSpeech(t, v)
  \/ GsEntry
  \/ WmEntry
  \/ GsSend
  \/ \E resp \in Responses : GsRespond(resp)
  \/ ModelReturn
  \/ SpeechReturn

SpecUsage == UsageInit /\ [][UsageNext]_vars

(***************************************************************************)
(* SpecValidate: validate_text and is_valid_voice on every bounded input   *)
(***************************************************************************)
\* Scaled-down stand-in for the 5000 characters of the tests (tts.rs line
\* 643): texts of the model are a few characters long.
ValidateLimit == 5

\* the texts validated reach one character over that limit
ValidateTexts == SeqsUpTo({"a", " "}, ValidateLimit + 1)

\* the voice ids of the tests (tts.rs lines 651-653)
TEST_VOICE_IDS ==
  { <<"r", "a", "c", "h", "e", "l">>, <<"a", "d", "a", "m">>,
    <<"b", "e", "l", "l", "a">> }

\* the voice ids checked: the accepted ones, bare and padded, the ones of
\* the tests, and ones that are neither
ValidateVoices ==
  VALID_VOICE_IDS
    \cup { <<" ">> \o v \o <<" ">> : v \in VALID_VOICE_IDS }
    \cup TEST_VOICE_IDS
    \cup { <<>>, <<" ">>, <<"i", "n", "v", "a", "l", "i", "d">>,
           <<"a", "l", "l", "o">>, <<"A", "l", "l", "o", "y">> }

\* TTSService::validate_text (lines 84-91)
ValidateText(t) ==
  /\ led' = [name |-> "validate_text", text |-> t, res |-> validate_text(t)]
  /\ UNCHANGED <<svc_vars, inflight, now, db, cache, given, snaps>>

\* TTSService::is_valid_voice (lines 93-106)
IsValidVoice(v) ==
  /\ led' = [name |-> "is_valid_voice", voice_id |-> v, res |-> is_valid_voice(v)]
  /\ UNCHANGED <<svc_vars, inflight, now, db, cache, given, snaps>>

\* each run is one call
ValidateNext ==
  \/ led.name = "none" /\ \E t \in ValidateTexts : ValidateText(t)
  \/ led.name = "none" /\ \E v \in ValidateVoices : IsValidVoice(v)

SpecValidate == UsageInit /\ [][ValidateNext]_vars

(***************************************************************************)
(* Properties of the chunker (checked under SpecSplit)                     *)
(***************************************************************************)
\* C1: concatenating the returned chunks in order reproduces the input text
\* exactly, whitespace included, also after a word split.
C1_ConcatReproducesInput ==
  sp_pc = "done" => Concat(sp_chunks) = sp_text

\* C2: every chunk returned by split_text_semantically has length (str::len,
\* the measure max_size is compared with) at most max_size, also when the
\* text holds a word longer than max_size.
C2_ChunkLengthBound ==
  sp_pc = "done" => \A i \in DOMAIN sp_chunks : ByteLen(sp_chunks[i]) <= sp_max

\* C3: split_text_semantically never emits an empty chunk; in particular a
\* text whose length is exactly at a chunk boundary gets no trailing empty
\* chunk.
C3_NoEmptyChunk ==
  sp_pc = "done" => \A i \in DOMAIN sp_chunks : sp_chunks[i] # <<>>

\* a text of exactly two full chunks, one of them holding a two-byte
\* character, was split into exactly two chunks
C3_Witness ==
  /\ sp_pc = "done"
  /\ ByteLen(sp_text) = 2 * sp_max
  /\ ByteLen(sp_text) > Len(sp_text)
  /\ Len(sp_chunks) = 2
  /\ ByteLen(sp_chunks[1]) = sp_max
  /\ ByteLen(sp_chunks[2]) = sp_max

(***************************************************************************)
(* Properties of generate_speech_with_retry (checked under Spec)           *)
(***************************************************************************)
\* an outcome the retry loop retries: an error that is neither
\* Authentication nor RateLimit
Retryable(outcome) ==
  outcome.tag = "err" /\ outcome.error.kind \notin {"Authentication", "RateLimit"}

\* an outcome the retry loop never retries
NonRetryable(outcome) ==
  outcome.tag = "err" /\ outcome.error.kind \in {"Authentication", "RateLimit"}

\* generate_speech calls started by the retry loop so far
AttemptsStarted == Len(outcomes) + (IF pc = "retry_await" THEN 1 ELSE 0)

\* C4: generate_speech_with_retry makes at most 3 attempts, a successful
\* attempt is the last one and its audio is what the call returns, and after
\* two retryable failures a third attempt is made whose success is returned.
C4_AtMostThreeAttemptsStopAtSuccess ==
  op = "retry" =>
    /\ AttemptsStarted <= 3
    /\ \A k \in DOMAIN outcomes :
         outcomes[k].tag = "ok" =>
           /\ k = Len(outcomes)
           /\ pc = "done"
           /\ result = Ok(outcomes[k].value)
    /\ (pc = "done" /\ Len(outcomes) >= 2
          /\ Retryable(outcomes[1]) /\ Retryable(outcomes[2])) =>
         /\ Len(outcomes) = 3
         /\ outcomes[3].tag = "ok" => result = outcomes[3]

\* two retryable failures, then a success that is returned after 3 requests
C4_Witness ==
  /\ op = "retry"
  /\ pc = "done"
  /\ Len(outcomes) = 3
  /\ Retryable(outcomes[1])
  /\ Retryable(outcomes[2])
  /\ outcomes[3].tag = "ok"
  /\ result = outcomes[3]
  /\ Len(requests) = 3

\* C5: an Authentication or RateLimit error on any attempt ends the call at
\* once with an error of that kind: it is the last attempt, and the only
\* backoff waits are those of the attempts before it.
C5_NonRetryableEndsCall ==
  op = "retry" =>
    \A k \in DOMAIN outcomes :
      NonRetryable(outcomes[k]) =>
        /\ k = Len(outcomes)
        /\ AttemptsStarted = k
        /\ pc = "done"
        /\ result.tag = "err"
        /\ result.error.kind = outcomes[k].error.kind
        /\ Len(waits) = k - 1

\* an Authentication error on the first attempt: one request, no wait
C5_Witness ==
  /\ op = "retry"
  /\ pc = "done"
  /\ Len(outcomes) = 1
  /\ outcomes[1].tag = "err"
  /\ outcomes[1].error.kind = "Authentication"
  /\ result.tag = "err"
  /\ result.error.kind = "Authentication"
  /\ Len(requests) = 1
  /\ waits = <<>>

\* C6: an error of any kind other than Authentication and RateLimit is
\* followed by another attempt unless it is the third; when the third attempt
\* fails that way, its error value is what the call returns.
C6_RetryableRetriedToExhaustion ==
  (op = "retry" /\ pc = "done") =>
    \A k \in DOMAIN outcomes :
      Retryable(outcomes[k]) =>
        \/ k < Len(outcomes)
        \/ /\ k = 3
           /\ result = outcomes[3]

\* three failed attempts (a timeout first, an HTTP 500 last): the third
\* attempt's error is returned
C6_Witness ==
  /\ op = "retry"
  /\ pc = "done"
  /\ Len(outcomes) = 3
  /\ outcomes[1] = Err(NetworkError(<<"operation timed out">>))
  /\ Retryable(outcomes[2])
  /\ outcomes[3].tag = "err"
  /\ outcomes[3].error.kind = "UnknownError"
  /\ outcomes[3] # outcomes[2]
  /\ result = outcomes[3]

\* C7: an Authentication or RateLimit error of the Speech Client reaches the
\* caller of generate_speech_with_retry unchanged (same retry_after, same
\* message).
C7_NonRetryableErrorUnchanged ==
  (op = "retry" /\ pc = "done" /\ outcomes # <<>>
     /\ NonRetryable(outcomes[Len(outcomes)])) =>
    result = outcomes[Len(outcomes)]

(***************************************************************************)
(* Properties of the multi-chunk paths (checked under Spec)                *)
(***************************************************************************)
\* the call in progress goes through a multi-chunk path
MultiChunkCall ==
  \/ op = "chunked" /\ ByteLen(text) > ChunkLimit
  \/ op = "speech" /\ ByteLen(text) > SingleLimit /\ ffmpeg

\* the ledger row written for the k-th request of the call
RecordedRequest(k) ==
  /\ k <= Len(db.rows)
  /\ db.rows[k].text = StoredText(requests[k].input)
  /\ db.rows[k].character_count = ByteLen(requests[k].input)

\* C8: in every multi-chunk path with a ledger, the record of chunk i is in
\* the ledger when the request of chunk i+1 is issued, and a successful
\* n-chunk call leaves one record per chunk.
C8_ChunkRecordedBeforeNextRequest ==
  (database /\ MultiChunkCall) =>
    /\ \A k \in 1..(Len(requests) - 1) : RecordedRequest(k)
    /\ (pc = "done" /\ result.tag = "ok") => Len(db.rows) = Len(requests)

\* the chunk whose synthesis failed and ended the multi-chunk call
\* (0-based), or -1 if the call did not end that way
FailedChunk ==
  IF pc = "done" /\ gs_result.tag = "err"
  THEN IF op = "chunked" /\ ByteLen(text) > ChunkLimit THEN ck_i
       ELSE IF op = "speech" /\ ByteLen(text) > SingleLimit /\ ffmpeg
                 /\ fc_i < Len(fc_chunks) THEN fc_i
       ELSE -1
  ELSE -1

\* C9: when the synthesis of chunk i fails in a multi-chunk call, the call
\* returns that chunk's error, no request was issued for a later chunk, and
\* the ledger records written for chunks 0..i-1 are still there.
C9_ChunkFailureEndsCall ==
  FailedChunk >= 0 =>
    /\ result = gs_result
    /\ Len(requests) = FailedChunk + 1
    /\ (op = "chunked" /\ database) =>
         \A k \in 1..FailedChunk : RecordedRequest(k) /\ db.rows[k].success

\* C10: when a chunk's synthesis fails and the ledger write recording the
\* failure fails too, the caller still receives the synthesis error.
C10_LedgerFailureSwallowed ==
  (op = "chunked" /\ pc = "done" /\ gs_result.tag = "err" /\ track_res.tag = "err") =>
    result = gs_result

(***************************************************************************)
(* Properties of the commands (checked under Spec)                         *)
(***************************************************************************)
\* a command is the entry point of the call
CommandCall == op \in {"cmd_generate", "cmd_model"}

\* C11: every command call that passes validation and issues at least one
\* provider request leaves, when it returns and no ledger write failed, at
\* least one usage record describing the attempt: its text and voice, and
\* success = true after audio, success = false with the error message after
\* an error.
C11_AttemptRecorded ==
  (CommandCall /\ pc = "done" /\ requests # <<>> /\ track_res.tag # "err") =>
    \E k \in DOMAIN db.rows :
      /\ db.rows[k].text = StoredText(text)
      /\ db.rows[k].voice_id = voice
      /\ db.rows[k].success = (result.tag = "ok")
      /\ result.tag = "err" => db.rows[k].error_message = Some(result.error)

\* what a command returns for a text that validate_text rejects
BlankTextError == <<"Validation error: ", "Text cannot be empty">>

\* what a command returns when the service could not be built
SetupErrors ==
  { <<"OPENAI_API_KEY environment variable not set">>,
    to_string(WITH_DATABASE_ERROR) }

\* C12: a command whose text is empty or whitespace-only (and whose service
\* could be built) returns a validation error at once, with no provider
\* request, no chunking and no ledger record.
C12_BlankTextRejectedBeforeAnyWork ==
  (CommandCall /\ \A i \in DOMAIN text : IsWhitespace(text[i])) =>
    /\ pc = "done"
    /\ result.tag = "err"
    /\ result.error \notin SetupErrors => result.error = BlankTextError
    /\ requests = <<>>
    /\ fc_chunks = <<>> /\ ck_chunks = <<>>
    /\ gs_pc = "idle" /\ fc_pc = "idle"
    /\ db.rows = <<>>

\* a whitespace-only text was rejected by a command with a valid voice
C12_Witness ==
  /\ CommandCall
  /\ text # <<>>
  /\ \A i \in DOMAIN text : IsWhitespace(text[i])
  /\ voice \in VALID_VOICE_IDS
  /\ pc = "done"
  /\ result = Err(BlankTextError)

(***************************************************************************)
(* Properties of the classification of responses (checked under Spec)      *)
(***************************************************************************)
\* a step in which a provider request is answered
Answered == received' = received + 1

\* the response of such a step
AnsweredResponse == last_response'[1]

\* the request answered in such a step is the one of a single-request call
AnsweredSingle == gs_pc = "await"

\* what the code makes of the response in such a step: the result of the
\* single-request call, or for a chunk of the concatenation path the error
\* the call ends with or the audio written to the chunk's temporary file
AnsweredOutcome ==
  IF AnsweredSingle THEN gs_result'
  ELSE IF fc_pc' = "done" THEN fc_result'
  ELSE Ok(temp_files'[Len(temp_files')])

\* the integer seconds of the retry-after headers of Responses
ExpectedRetryAfter(header) ==
  IF header = Some(<<"6", "0">>) THEN Some(60) ELSE None

\* the response is an HTTP response with this status
HasStatus(resp, status) == resp.kind = "http" /\ resp.status = status

\* C13: on every provider request, of a single-request call or for a chunk
\* of generate_speech_with_ffmpeg_concat, a 401 response yields an
\* Authentication error and a 429 response a RateLimit error carrying the
\* integer seconds of the retry-after header, absent when the header is
\* missing or not an integer.
C13_AuthAndRateLimitClassified ==
  [][Answered =>
       /\ HasStatus(AnsweredResponse, 401) =>
            /\ AnsweredOutcome.tag = "err"
            /\ AnsweredOutcome.error.kind = "Authentication"
       /\ HasStatus(AnsweredResponse, 429) =>
            AnsweredOutcome =
              Err(RateLimit(ExpectedRetryAfter(AnsweredResponse.retry_after)))]_vars

\* the response is an HTTP response with a 5xx status
ServerError(resp) == resp.kind = "http" /\ resp.status \in 500..599

\* the outcome is an error of this kind
IsError(outcome, kind) == outcome.tag = "err" /\ outcome.error.kind = kind

\* C14 as stated: a response with a 5xx status is classified by the
\* single-request calls as NetworkError, and UnknownError is produced only
\* for non-success statuses that are neither 401, 429 nor 5xx.
C14_ServerErrorIsNetworkError ==
  [][(Answered /\ AnsweredSingle) =>
       /\ ServerError(AnsweredResponse) => IsError(AnsweredOutcome, "NetworkError")
       /\ IsError(AnsweredOutcome, "UnknownError") =>
            /\ AnsweredResponse.kind = "http"
            /\ AnsweredResponse.status \notin (200..299) \cup {401, 429} \cup (500..599)]_vars

\* C14 amended: a response with a 5xx status is classified by the
\* single-request calls as UnknownError carrying the status and the body,
\* like every other status that is not 200, 401 or 429; NetworkError is
\* produced only when no response arrived or the body of a 200 response
\* could not be read.
C14_ServerErrorIsUnknownError ==
  [][(Answered /\ AnsweredSingle) =>
       /\ ServerError(AnsweredResponse) =>
            AnsweredOutcome =
              Err(UnknownError(<<"HTTP ", "500 Internal Server Error", ": ">>
                               \o AnsweredResponse.body))
       /\ IsError(AnsweredOutcome, "UnknownError") <=>
            /\ AnsweredResponse.kind = "http"
            /\ AnsweredResponse.status \notin {200, 401, 429}
       /\ IsError(AnsweredOutcome, "NetworkError") <=>
            \/ AnsweredResponse.kind = "transport"
            \/ HasStatus(AnsweredResponse, 200) /\ ~AnsweredResponse.body_ok]_vars

\* a single-request call was answered with status 500 and failed with an
\* UnknownError
C14_Witness ==
  /\ op \in {"speech", "model"}
  /\ Len(requests) = 1
  /\ gs_pc = "done"
  /\ last_response # None
  /\ ServerError(last_response[1])
  /\ IsError(gs_result, "UnknownError")

(***************************************************************************)
(* Properties of long texts and of the concatenation path                  *)
(* (checked under Spec)                                                    *)
(***************************************************************************)
\* C15: when a text longer than the single-request limit is submitted and
\* the tool is unavailable, generate_speech and generate_speech_with_model
\* each issue exactly one request, whose input is the first SingleLimit
\* characters of the text, and return that request's outcome.
C15_TruncatedWhenToolMissing ==
  (op \in {"speech", "model"} /\ ~ffmpeg /\ Len(text) > SingleLimit) =>
    /\ Len(requests) <= 1
    /\ \A k \in DOMAIN requests : requests[k].input = SubSeq(text, 1, SingleLimit)
    /\ pc = "done" =>
         /\ Len(requests) = 1
         /\ received = 1
         /\ result = gs_result
         /\ tool_runs = 0

\* C16: when a multi-chunk path produces exactly one audio segment, the
\* returned bytes are that segment's bytes and the external tool is never
\* run.
C16_SingleSegmentReturnedAsIs ==
  /\ Len(fc_chunks) = 1 =>
       /\ tool_runs = 0
       /\ (fc_pc = "done" /\ fc_result.tag = "ok") =>
            /\ received >= 1
            /\ last_response[1].status = 200
            /\ fc_result.value = last_response[1].body
  /\ (op = "chunked" /\ Len(ck_chunks) = 1) =>
       /\ tool_runs = 0
       /\ (pc = "done" /\ result.tag = "ok") =>
            result.value = <<last_response[1].body>>

\* the concatenation path synthesized its only chunk and returned its audio
C16_Witness ==
  /\ op = "speech"
  /\ Len(fc_chunks) = 1
  /\ fc_pc = "done"
  /\ fc_result.tag = "ok"
  /\ fc_result.value = <<2, 3>>
  /\ tool_runs = 0

\* the sum of the lengths of some files
RECURSIVE SumLen(_)
SumLen(files) == IF files = <<>> THEN 0 ELSE Len(Head(files)) + SumLen(Tail(files))

\* C17: for N > 1 chunks, the audio of chunk k goes to the k-th temporary
\* file, the manifest lists the N files in chunk order, and with a tool that
\* concatenates the listed files in order the returned bytes are
\* audio_0 ++ ... ++ audio_(N-1), their length the sum of the lengths.
C17_ManifestInChunkOrder ==
  [][/\ (Answered /\ ~AnsweredSingle /\ fc_pc' = "loop") =>
          /\ requests[Len(requests)].input = fc_chunks[fc_i + 1]
          /\ Len(temp_files') = fc_i + 1
          /\ temp_files'[fc_i + 1] = AnsweredResponse.body
          /\ \A k \in 1..fc_i : temp_files'[k] = temp_files[k]
     /\ fc_pc' = "tool" =>
          /\ Len(fc_chunks) > 1
          /\ Len(temp_files') = Len(fc_chunks)
          /\ list_file' = Some([k \in 1..Len(fc_chunks) |-> k])
     /\ (fc_pc = "track" /\ fc_pc' = "done" /\ fc_result'.tag = "ok") =>
          /\ \A k \in 1..Len(temp_files) :
               \E i \in 0..Len(fc_result'.value) :
                 /\ i = SumLen(SubSeq(temp_files, 1, k - 1))
                 /\ SubSeq(fc_result'.value, i + 1, i + Len(temp_files[k]))
                      = temp_files[k]
          /\ Len(fc_result'.value) = SumLen(temp_files)]_vars

\* two chunks with different audio were concatenated by the tool
C17_Witness ==
  /\ op = "speech"
  /\ Len(fc_chunks) = 2
  /\ tool_runs = 1
  /\ fc_pc = "done"
  /\ fc_result = Ok(<<2, 3, 1>>)

\* C18: when generate_speech_with_ffmpeg_concat has returned, with audio or
\* with any error, none of its temporary files (per-chunk audio files,
\* manifest, output file) exists.
C18_NoTempFileLeft ==
  fc_pc \in {"idle", "done"} =>
    /\ temp_files = <<>>
    /\ list_file = None
    /\ output_file = None

\* the call failed on the tool after the per-chunk files, the manifest and
\* the output file had been created, or on a later chunk after the files of
\* the earlier chunks had been
C18_Witness ==
  /\ op = "speech"
  /\ fc_pc = "done"
  /\ fc_result.tag = "err"
  /\ fc_i >= 1
  /\ tool_runs = 1 \/ fc_i < Len(fc_chunks)
  /\ temp_files = <<>>

\* the requests of the call are those of a multi-chunk path, chunk by chunk
ChunkRequests ==
  IF op = "chunked" THEN ck_chunks
  ELSE IF op \in {"speech", "model", "cmd_generate", "cmd_model"} /\ fc_pc # "idle"
  THEN fc_chunks
  ELSE <<>>

\* chunks of the multi-chunk path whose synthesis is finished
ChunksDone == IF op = "chunked" THEN ck_i ELSE fc_i

\* C19: within one call chunks are synthesized one at a time in increasing
\* index order: the k-th request is for the k-th chunk, the request for
\* chunk i+1 is issued only after the response of chunk i, and at most one
\* request is outstanding.
C19_OneChunkAtATimeInOrder ==
  /\ Len(requests) - received \in {0, 1}
  /\ Len(requests) - received = 1 <=> (gs_pc = "await" \/ fc_pc = "await")
  /\ ChunkRequests # <<>> =>
       /\ Len(requests) <= Len(ChunkRequests)
       /\ Len(requests) <= ChunksDone + 1
       /\ \A k \in DOMAIN requests : requests[k].input = ChunkRequests[k]

\* two different chunks were synthesized one after the other
C19_Witness ==
  /\ ChunkRequests # <<>>
  /\ Len(requests) = 2
  /\ received = 2
  /\ requests[1].input # requests[2].input
  /\ pc = "done"
  /\ result.tag = "ok"

\* C20: in a multi-chunk call, a chunk whose synthesis fails with a
\* retryable error is attempted MAX_RETRIES times before the call fails with
\* that chunk's error.
C20_FailedChunkWasRetried ==
  (FailedChunk >= 0 /\ Retryable(gs_result)) =>
    /\ Len(requests) >= FailedChunk + MAX_RETRIES
    /\ \A k \in (FailedChunk + 1)..Len(requests) :
         requests[k].input = requests[FailedChunk + 1].input

\* C30: a call of generate_speech_with_model (directly or through its
\* command) sends the caller-supplied model in every provider request, the
\* single request and every chunk's request alike.
C30_CallerModelInEveryRequest ==
  op \in {"model", "cmd_model"} =>
    \A k \in DOMAIN requests : requests[k].model = model

(***************************************************************************)
(* Claims about the ledger (SpecLedger)                                    *)
(***************************************************************************)
\* the start of the trailing window of `days` days that ends at t
WindowStart(t, days) == [day |-> t.day - days, tod |-> t.tod]

\* a stored record's time lies after the start of the window
InsideWindow(row, t, days) ==
  TimeLess(WindowStart(t, days), ParseRfc3339(row.timestamp))

\* a stored record's time lies before the start of the window
OlderThanWindow(row, t, days) ==
  TimeLess(ParseRfc3339(row.timestamp), WindowStart(t, days))

\* how many of the rows pass a test
CountRows(rows, Test(_)) == Cardinality({ k \in DOMAIN rows : Test(rows[k]) })

\* C21: get_usage_stats returns successful_requests + failed_requests =
\* total_requests, all counts 0 when nothing is counted, and total_requests
\* is the number of records in the trailing window (a record exactly at the
\* start of the window may count either way).
C21_StatsCountsAddUp ==
  led.name = "get_usage_stats" =>
    LET s == led.res.value
    IN /\ led.res.tag = "ok"
       /\ s.successful_requests + s.failed_requests = s.total_requests
       /\ s.total_requests = 0 =>
            /\ s.successful_requests = 0
            /\ s.failed_requests = 0
            /\ s.total_characters = 0
       /\ s.total_requests
            >= CountRows(db.rows, LAMBDA r : InsideWindow(r, now, led.days))
       /\ s.total_requests
            <= CountRows(db.rows, LAMBDA r : ~OlderThanWindow(r, now, led.days))

\* C22: when the trailing window holds a record, most_used_voice is a voice
\* with at least as many records in the window as every other voice.
C22_MostUsedVoiceIsMaximal ==
  (/\ led.name = "get_usage_stats"
   /\ \E k \in DOMAIN db.rows : InsideWindow(db.rows[k], now, led.days)) =>
    \A w \in { db.rows[k].voice_id : k \in DOMAIN db.rows } :
      CountRows(db.rows, LAMBDA r : /\ r.voice_id = led.res.value.most_used_voice
                                    /\ ~OlderThanWindow(r, now, led.days))
        >= CountRows(db.rows, LAMBDA r : /\ r.voice_id = w
                                         /\ InsideWindow(r, now, led.days))

\* C23: when no record is counted, most_used_voice is a voice id that
\* is_valid_voice accepts.
C23_FallbackVoiceIsValid ==
  (led.name = "get_usage_stats" /\ led.res.value.total_requests = 0) =>
    is_valid_voice(led.res.value.most_used_voice)

\* C24: for limit >= 0 get_usage_records returns at most limit records,
\* newest first, each of them a stored record, none older than the trailing
\* window when days is given, and no eligible record left out is newer than
\* one returned.
C24_RecordsNewestFirstInWindow ==
  (led.name = "get_usage_records" /\ led.limit >= 0) =>
    LET recs == led.res.value
        Stored(rec) == \E k \in DOMAIN db.rows : DecodeRecord(db.rows[k]) = rec
        Eligible(row) == led.days = None \/ InsideWindow(row, now, led.days[1])
        Returned(row) == \E i \in DOMAIN recs : recs[i] = DecodeRecord(row)
    IN /\ led.res.tag = "ok"
       /\ Len(recs) <= led.limit
       /\ \A i \in DOMAIN recs : Stored(recs[i])
       /\ \A i, j \in DOMAIN recs :
            i < j => /\ recs[i].id # recs[j].id
                     /\ ~TimeLess(recs[i].timestamp, recs[j].timestamp)
       /\ led.days # None =>
            \A i \in DOMAIN recs :
              ~TimeLess(recs[i].timestamp, WindowStart(now, led.days[1]))
       /\ \A k \in DOMAIN db.rows :
            (Eligible(db.rows[k]) /\ ~Returned(db.rows[k])) =>
              /\ Len(recs) = led.limit
              /\ \A i \in DOMAIN recs :
                   ~TimeLess(recs[i].timestamp, ParseRfc3339(db.rows[k].timestamp))

\* C27: cleanup_old_records(days) deletes exactly the records older than
\* now minus days, returns how many it deleted, leaves the other records
\* and the cache as they are, and deletes no record that
\* get_usage_records(_, days) returns for the same window.
C27_CleanupDeletesExactlyOld ==
  [][ led'.name = "cleanup_old_records" =>
        /\ db'.rows = SelectSeq(db.rows, LAMBDA r : ~OlderThanWindow(r, now, led'.days))
        /\ db'.last_id = db.last_id
        /\ led'.res = Ok(Len(db.rows) - Len(db'.rows))
        /\ cache' = cache
        /\ \A k \in DOMAIN db.rows :
             (\E i \in DOMAIN get_usage_records(db, now, -1, Some(led'.days)).value :
                get_usage_records(db, now, -1, Some(led'.days)).value[i]
                  = DecodeRecord(db.rows[k]))
               => \E j \in DOMAIN db'.rows : db'.rows[j] = db.rows[k]
    ]_vars

\* every stored row carries a positive id of its own and, read back, is the
\* record that was handed to record_usage when that id was assigned
RowsAsGiven ==
  \A k \in DOMAIN db.rows :
    LET row == db.rows[k]
    IN /\ row.id # None
       /\ row.id[1] \in 1..Len(given)
       /\ DecodeRecord(row) = [given[row.id[1]] EXCEPT !.id = row.id]
       /\ \A j \in DOMAIN db.rows : j # k => db.rows[j].id # row.id

\* C25: every usage record still present has the field values it was
\* inserted with and an id > 0 that no other record ever had, the records
\* get_usage_records returns are the records given, and a record
\* disappears only through cleanup_old_records.
C25_RecordsImmutable ==
  [][ /\ RowsAsGiven'
      /\ given' # given =>
           /\ led'.name = "record_usage"
           /\ led'.res = Ok(Len(given'))
           /\ db'.rows = Append(db.rows, db'.rows[Len(db'.rows)])
           /\ db'.rows[Len(db'.rows)].id = Some(Len(given'))
      /\ led'.name = "get_usage_records" =>
           \A i \in DOMAIN led'.res.value :
             LET rec == led'.res.value[i]
             IN /\ rec.id # None
                /\ rec.id[1] \in 1..Len(given)
                /\ rec = [given[rec.id[1]] EXCEPT !.id = rec.id]
      /\ (\E k \in DOMAIN db.rows : \A j \in DOMAIN db'.rows : db'.rows[j] # db.rows[k])
           => led'.name = "cleanup_old_records"
    ]_vars

\* a record was deleted by cleanup_old_records and the one inserted after
\* it is read back under the second id
C25_Witness ==
  /\ led.name = "get_usage_records"
  /\ Len(given) = 2
  /\ Len(db.rows) = 1
  /\ Len(led.res.value) = 1
  /\ led.res.value[1].id = Some(2)
  /\ led.res.value[1] # [given[1] EXCEPT !.id = Some(2)]

(***************************************************************************)
(* Claims about the service's ledger methods (SpecUsage)                   *)
(***************************************************************************)
\* the snapshot of the last successful cache_user_info call, if any
LastSnapshot == IF snaps = <<>> THEN None ELSE Some(snaps[Len(snaps)])

\* C26: in every state the account-info cache holds at most one row and
\* reads back as exactly the snapshot of the most recent cache_user_info
\* call, None if there was none; and every step in which
\* get_cached_user_info returns (the only one that leaves all but the
\* returned result as it is) returns that snapshot.
C26_CacheHoldsLastSnapshot ==
  /\ [](/\ Len(cache) <= 1
        /\ get_cached_user_info(cache) = Ok(LastSnapshot))
  /\ [][(led'.name = "get_cached_user_info"
            /\ UNCHANGED <<svc_vars, inflight, now, db, cache, given, snaps>>) =>
          led'.res = Ok(LastSnapshot)]_vars

\* a snapshot was overwritten by a different one, which is then read back
C26_Witness ==
  /\ led.name = "get_cached_user_info"
  /\ Len(snaps) = 2
  /\ snaps[1].character_used # snaps[2].character_used
  /\ led.res = Ok(Some(snaps[2]))

\* C28: the record written by track_usage stores the text unchanged when
\* it has at most StoreLimit characters, otherwise a prefix of it followed
\* by "..." of at most StoreLimit characters in all; character_count is
\* the number of characters of the original text.
C28_StoredTextAndCount ==
  (led.name = "track_usage" /\ database) =>
    /\ led.res.tag \in {"ok", "err"}
    /\ led.res.tag = "ok" =>
         LET row == db.rows[Len(db.rows)]
         IN /\ Len(led.text) <= StoreLimit => row.text = led.text
            /\ Len(led.text) > StoreLimit =>
                 /\ Len(row.text) <= StoreLimit
                 /\ \E n \in 0..(StoreLimit - 3) :
                      row.text = SubSeq(led.text, 1, n) \o <<".", ".", ".">>
            /\ row.character_count = Len(led.text)

\* C29: without a ledger track_usage returns Ok and changes nothing,
\* get_usage_stats and get_usage_history return the error 'Database not
\* available', and get_user_info succeeds with character_used = 0.
C29_NoLedgerNoCrash ==
  ~database =>
    /\ db = EmptyDb
    /\ cache = <<>>
    /\ led.name = "track_usage" => led.res = Ok(<<>>)
    /\ led.name = "tts_get_usage_stats" =>
         led.res = Err(UnknownError(<<"Database not available">>))
    /\ led.name = "tts_get_usage_history" =>
         led.res = Err(UnknownError(<<"Database not available">>))
    /\ led.name = "get_user_info" =>
         /\ led.res.tag = "ok"
         /\ led.res.value.character_used = 0

\* the history was asked of a service without a ledger
C29_Witness ==
  /\ ~database
  /\ led.name = "tts_get_usage_history"
  /\ led.res.tag = "err"

(***************************************************************************)
(* Claims about validation (SpecValidate)                                  *)
(***************************************************************************)
\* C33: validate_text returns an error for text longer than ValidateLimit
\* characters and for empty and whitespace-only text, and Ok for any other
\* text.
C33_LongOrBlankTextRejected ==
  led.name = "validate_text" =>
    (led.res.tag = "err"
       <=> (Len(led.text) > ValidateLimit
              \/ \A k \in DOMAIN led.text : led.text[k] = " "))

\* C34: is_valid_voice is true for "rachel", "adam" and "bella", and false
\* for the empty string and for any identifier that is neither one of
\* these nor in the supported voice set.
C34_TestVoicesAccepted ==
  led.name = "is_valid_voice" =>
    /\ led.voice_id \in TEST_VOICE_IDS => led.res
    /\ led.voice_id = <<>> => ~led.res
    /\ Trim(led.voice_id) \notin (VALID_VOICE_IDS \cup TEST_VOICE_IDS) => ~led.res

\* the outcomes of the retry loop so far that were followed by a wait: the
\* retryable failures of all attempts but the last
WaitedOutcomes ==
  { k \in DOMAIN outcomes : Retryable(outcomes[k]) /\ k < MAX_RETRIES }

\* C35: in generate_speech_with_retry the wait after the first failed
\* retryable attempt is 1000 ms and after the second 2000 ms; no wait
\* follows the third attempt, a success or a non-retryable error.
C35_BackoffDoubles ==
  op = "retry" =>
    /\ Len(waits) = Cardinality(WaitedOutcomes)
    /\ Len(waits) <= 2
    /\ \A k \in DOMAIN waits : waits[k] = (IF k = 1 THEN 1000 ELSE 2000)
    /\ pc = "done" => Len(waits) = Len(outcomes) - 1

\* three retryable failures: two waits, none after the last attempt
C35_Witness ==
  /\ op = "retry"
  /\ pc = "done"
  /\ Len(outcomes) = 3
  /\ \A k \in 1..3 : Retryable(outcomes[k])
  /\ waits = <<1000, 2000>>
  /\ result.tag = "err"

(***************************************************************************)
(* Greedy packing of the chunker (SpecSplit)                               *)
(***************************************************************************)
\* the positions of the text at which a candidate sentence ends
SentenceEnds(t) ==
  { SumLen(SubSeq(Sentences(t), 1, j)) : j \in DOMAIN Sentences(t) }

\* the position of the text at which the i-th chunk ends
ChunkEnd(chunks, i) == SumLen(SubSeq(chunks, 1, i))

\* every chunk is a run of whole consecutive sentences, and the sentence
\* after a chunk that is not the last would not have fitted into it
PackedGreedily(t, chunks, max_size) ==
  /\ Concat(chunks) = t
  /\ \A i \in DOMAIN chunks : ChunkEnd(chunks, i) \in SentenceEnds(t)
  /\ \A i \in 1..(Len(chunks) - 1) :
       ByteLen(chunks[i])
         + ByteLen(Sentences(SubSeq(t, ChunkEnd(chunks, i) + 1, Len(t)))[1])
         > max_size

C37_OneRecordWithCallerModel ==
  (op = "cmd_model" /\ pc = "done" /\ result.tag = "ok" /\ track_res = Ok(<<>>)) =>
    /\ Len(db.rows) = 1
    /\ db.rows[1].model_id = model
    /\ db.rows[1].success


\* the provider requests that generate_speech issues for one chunk that is
\* synthesised in full
RequestsFor(chunk) ==
  IF ByteLen(chunk) > SingleLimit /\ ffmpeg
  THEN Len(split_text_semantically(chunk, ChunkLimit))
  ELSE 1

RECURSIVE RequestsThrough(_, _)
\* the provider requests issued for the first n chunks
RequestsThrough(chunks, n) ==
  IF n = 0 THEN 0 ELSE RequestsThrough(chunks, n - 1) + RequestsFor(chunks[n])

\* the ledger holds a success record for the chunk
SuccessRecorded(chunk) ==
  \E k \in DOMAIN db.rows :
    /\ db.rows[k].text = StoredText(chunk)
    /\ db.rows[k].model_id = DEFAULT_MODEL
    /\ db.rows[k].success

\* the ledger write after a successful synthesis failed and ended the call
WriteFailedAfterAudio ==
  op = "chunked" /\ pc = "done" /\ gs_result.tag = "ok" /\ track_res.tag = "err"

\* C38: in generate_speech_chunked with a ledger configured, audio for a
\* chunk is collected only if that chunk's success record was written; if
\* the ledger write after a successful synthesis fails, the call returns the
\* database error and no audio, and no request was issued for a later chunk.
C38_AudioOnlyWithRecord ==
  (op = "chunked" /\ database) =>
    /\ \A k \in DOMAIN audio_chunks : SuccessRecorded(ck_chunks[k])
    /\ WriteFailedAfterAudio =>
         /\ result = Err(UnknownError(<<"Database error: ", "write failed">>))
         /\ ck_i < Len(ck_chunks)
         /\ Len(audio_chunks) = ck_i
         /\ Len(requests) = RequestsThrough(ck_chunks, ck_i + 1)

C38_Witness ==
  /\ database /\ WriteFailedAfterAudio
  /\ ck_i + 1 < Len(ck_chunks)
  /\ result.tag = "err"


\* C39: the byte-offset truncations never crash for any valid UTF-8 text:
\* track_usage (cut at byte 97 of a text longer than 100 bytes) and the
\* tool-unavailable fallback (cut at byte 4000) complete normally also when
\* the cut offset falls inside a multi-byte character.
C39_TruncationsNeverCrash ==
  /\ led.name = "track_usage" => led.res # Panic
  /\ (op \in {"model", "speech"} /\ ~ffmpeg) => result # Panic


(***************************************************************************)
(* SpecConcurrent: two calls of generate_speech_with_ffmpeg_concat (lines  *)
(* 174-328) running at once on one service. They share the temporary       *)
(* directory and the ledger; everything else is local to a call.          *)
(* SpecTempDir adds the command read_text_file (main.rs lines 116-148),    *)
(* which works on the same directory.                                      *)
(***************************************************************************)
\* names the temporary directory has room for
MaxPaths == 8
Paths == 1..MaxPaths

\* the texts of the concurrent calls, longer than the single-request limit:
\* one that splits into two chunks and one that stays in one piece
CoTexts == { <<"a", "a", " ", "a", "a">>, <<"a", "a", "a", "a", "a">> }

\* a path of the temporary directory under which there is no file
NoFile == 0

\* the voice each caller asks for
CoVoice(c) == IF c = 1 THEN <<"a", "l", "l", "o", "y">> ELSE <<"e", "c", "h", "o">>

\* the largest of the names, 0 when there is none
MaxPath(names) == IF names = {} THEN 0
                  ELSE CHOOSE q \in names : \A r \in names : r <= q

\* the paths with the suffix that the calls hold as NamedTempFile: the
\* manifests are created with .txt (line 265), the files of the chunks and
\* the output file with .mp3 (lines 239, 282)
HeldPaths(suffix) ==
  UNION { IF suffix = ".txt"
          THEN { calls[c].list_file[k] : k \in DOMAIN calls[c].list_file }
          ELSE { calls[c].temp_files[k] : k \in DOMAIN calls[c].temp_files }
                 \cup { calls[c].output_file[k] : k \in DOMAIN calls[c].output_file }
        : c \in Callers }

\* the suffix a file is not created with
OtherSuffix(suffix) == IF suffix = ".txt" THEN ".mp3" ELSE ".txt"

\* mutant of FreePaths: without O_EXCL, the name of an existing file can be
\* drawn
FreePathsAny(dir, suffix) ==
  { q \in Paths : /\ q \notin HeldPaths(OtherSuffix(suffix))
                  /\ q <= MaxPath(DOMAIN dir \cup HeldPaths(".txt") \cup HeldPaths(".mp3")) + 1 }

\* tempfile::Builder::tempfile (lines 238-241, 264-270, 281-284): the file
\* is created under a random name with O_EXCL, so under a name no existing
\* file has. The name ends with the suffix, so it is not a path held for a
\* file of the other suffix; it can be a path whose file was removed, also
\* one a call still holds. Names are arbitrary: up to renaming, a new file
\* takes a name that was in use before or the next name never used.
FreePaths(dir, suffix) ==
  { q \in Paths : /\ q \notin DOMAIN dir
                  /\ q \notin HeldPaths(OtherSuffix(suffix))
                  /\ q <= MaxPath(DOMAIN dir \cup HeldPaths(".txt") \cup HeldPaths(".mp3")) + 1 }

\* the directory after content was written to the file created as q
WriteFile(dir, q, content) == [r \in DOMAIN dir \cup {q} |-> IF r = q THEN content ELSE dir[r]]

\* the directory after the files named in qs were removed
RemoveFiles(dir, qs) == [r \in DOMAIN dir \ qs |-> dir[r]]

\* the names of the temporary files a call holds
OwnPaths(call) ==
  { call.temp_files[k] : k \in DOMAIN call.temp_files }
    \cup { call.list_file[k] : k \in DOMAIN call.list_file }
    \cup { call.output_file[k] : k \in DOMAIN call.output_file }

\* the call returns: its NamedTempFiles are dropped, which removes them
ReturnFrom(call, res) ==
  [call EXCEPT !.pc = "done", !.result = res, !.temp_files = <<>>,
               !.list_file = None, !.output_file = None]

\* the body the provider answers the request of chunk k of caller c with
AudioFor(c, k) == << [call |-> c, chunk |-> k] >>

\* the files a manifest lists all exist
Readable(dir, manifest) == \A k \in DOMAIN manifest : manifest[k] \in DOMAIN dir

\* ffmpeg -f concat -c copy: the contents of the listed files, in order
ConcatFiles(dir, manifest) == Concat([k \in DOMAIN manifest |-> dir[manifest[k]]])

ConcurrentInit ==
  /\ sp_pc = "off"
  /\ sp_text = <<>>
  /\ sp_max = 1
  /\ sp_chunks = <<>>
  /\ database = TRUE
  /\ ffmpeg = TRUE
  /\ ServiceIdle

\* Lines 174-185: the call starts and splits its text
CoStart(c, t, v) ==
  /\ calls[c].pc = "idle"
  /\ LET chunks == split_text_semantically(t, ChunkLimit)
     IN calls' = [calls EXCEPT ![c] =
          IF chunks = <<>>
          THEN [ReturnFrom(@, Err(ValidationError(<<"No valid text chunks found">>)))
                  EXCEPT !.text = t, !.voice_id = v]
          ELSE [@ EXCEPT !.pc = "send", !.text = t, !.voice_id = v, !.chunks = chunks]]
  /\ UNCHANGED <<sp_vars, led_vars, tmp_dir, env_vars, call_vars, retry_vars, ck_vars,
                 store_vars, requests, received, last_response, tool_runs, gs_vars, fc_vars>>

\* Lines 197-211: the request of the call's next chunk is sent
CoSend(c) ==
  /\ calls[c].pc = "send"
  /\ requests' = Append(requests, [input |-> ChunkAt(calls[c].chunks, calls[c].i),
                                   voice |-> calls[c].voice_id, model |-> DEFAULT_MODEL])
  /\ calls' = [calls EXCEPT ![c].pc = "await"]
  /\ UNCHANGED <<sp_vars, led_vars, tmp_dir, env_vars, call_vars, retry_vars, ck_vars,
                 store_vars, received, last_response, tool_runs, gs_vars, fc_vars>>

\* what the provider may answer the request of the call's next chunk with:
\* the audio of that chunk, or a failure: of the request, of reading the
\* body, or a status that is not a success (401 and 500 here, line 228
\* treats them all alike)
CoResponses(c) ==
  { [kind |-> "http", status |-> 200, body |-> AudioFor(c, calls[c].i + 1),
     body_ok |-> TRUE, retry_after |-> None] }
    \cup { resp \in Responses :
             /\ ClassifyChunkResponse(resp).tag = "err"
             /\ IF resp.kind = "http" THEN resp.status \in {200, 401, 500} ELSE TRUE }

\* Lines 205-249 and 187-194: the response; audio goes to a new temporary
\* file and the loop goes on, after the delay, with the next chunk; a
\* failure of the request, of reading the body, or a status that is not a
\* success ends the call
CoRespond(c, resp, q) ==
  /\ calls[c].pc = "await"
  /\ received' = received + 1
  /\ IF ClassifyChunkResponse(resp).tag = "ok"
     THEN LET body == ClassifyChunkResponse(resp).value
          IN /\ q \in FreePaths(tmp_dir, ".mp3")
             /\ tmp_dir' = WriteFile(tmp_dir, q, body)
             /\ calls' = [calls EXCEPT ![c] =
                  [@ EXCEPT !.temp_files = PushTempFile(@, q),
                            !.bodies = Append(@, body),
                            !.i = @ + 1,
                            !.pc = IF calls[c].i + 1 < Len(calls[c].chunks)
                                   THEN "sleep" ELSE "collect"]]
     ELSE /\ q = 1
          /\ tmp_dir' = RemoveFiles(tmp_dir, OwnPaths(calls[c]))
          /\ calls' = [calls EXCEPT ![c] = ReturnFrom(@, ClassifyChunkResponse(resp))]
  /\ UNCHANGED <<sp_vars, led_vars, env_vars, call_vars, retry_vars, ck_vars,
                 store_vars, requests, last_response, tool_runs, gs_vars, fc_vars>>

\* Line 193: the 200 ms delay is over
CoWake(c) ==
  /\ calls[c].pc = "sleep"
  /\ calls' = [calls EXCEPT ![c].pc = "send"]
  /\ UNCHANGED <<sp_vars, led_vars, tmp_dir, env_vars, call_vars, retry_vars, ck_vars,
                 store_vars, requests, received, last_response, tool_runs, gs_vars, fc_vars>>

\* Lines 251-258: a single chunk is read back and returned
CoReturnSingle(c) ==
  /\ calls[c].pc = "collect"
  /\ IsSingleSegment(calls[c].temp_files)
  /\ LET q == calls[c].temp_files[1]
     IN calls' = [calls EXCEPT ![c] =
          ReturnFrom(@, IF q \in DOMAIN tmp_dir THEN Ok(tmp_dir[q])
                        ELSE Err(NetworkError(<<"Failed to read temp file: ", "not found">>)))]
  /\ tmp_dir' = RemoveFiles(tmp_dir, OwnPaths(calls[c]))
  /\ UNCHANGED <<sp_vars, led_vars, env_vars, call_vars, retry_vars, ck_vars,
                 store_vars, requests, received, last_response, tool_runs, gs_vars, fc_vars>>

\* Lines 264-278: the manifest is created and lists the call's files
CoListFile(c, q) ==
  /\ calls[c].pc = "collect"
  /\ ~IsSingleSegment(calls[c].temp_files)
  /\ q \in FreePaths(tmp_dir, ".txt")
  /\ tmp_dir' = WriteFile(tmp_dir, q, calls[c].temp_files)
  /\ calls' = [calls EXCEPT ![c] = [@ EXCEPT !.list_file = Some(q), !.pc = "output"]]
  /\ UNCHANGED <<sp_vars, led_vars, env_vars, call_vars, retry_vars, ck_vars,
                 store_vars, requests, received, last_response, tool_runs, gs_vars, fc_vars>>

\* Lines 281-284: the (still empty) output file is created
CoOutputFile(c, q) ==
  /\ calls[c].pc = "output"
  /\ q \in FreePaths(tmp_dir, ".mp3")
  /\ tmp_dir' = WriteFile(tmp_dir, q, <<>>)
  /\ calls' = [calls EXCEPT ![c] = [@ EXCEPT !.output_file = Some(q), !.pc = "tool"]]
  /\ UNCHANGED <<sp_vars, led_vars, env_vars, call_vars, retry_vars, ck_vars,
                 store_vars, requests, received, last_response, tool_runs, gs_vars, fc_vars>>

\* Lines 291-312: the tool runs on the manifest and writes the output file;
\* it fails when it cannot be started, or exits with a failure, as it does
\* when a listed file is missing
CoRunTool(c, tool) ==
  /\ calls[c].pc = "tool"
  /\ tool_runs' = tool_runs + 1
  /\ LET list == calls[c].list_file[1]
         manifest == IF list \in DOMAIN tmp_dir THEN tmp_dir[list] ELSE <<>>
     IN IF tool = "spawn_failed"
        THEN /\ calls' = [calls EXCEPT ![c] =
                  ReturnFrom(@, Err(NetworkError(<<"Failed to run ffmpeg: ", "spawn failed">>)))]
             /\ tmp_dir' = RemoveFiles(tmp_dir, OwnPaths(calls[c]))
        ELSE IF tool = "exit_failure" \/ list \notin DOMAIN tmp_dir
                  \/ ~Readable(tmp_dir, manifest)
        THEN /\ calls' = [calls EXCEPT ![c] =
                  ReturnFrom(@, Err(NetworkError(<<"ffmpeg failed: ", "stderr">>)))]
             /\ tmp_dir' = RemoveFiles(tmp_dir, OwnPaths(calls[c]))
        ELSE /\ calls' = [calls EXCEPT ![c].pc = "read"]
             /\ tmp_dir' = WriteFile(tmp_dir, calls[c].output_file[1],
                                     ConcatFiles(tmp_dir, manifest))
  /\ UNCHANGED <<sp_vars, led_vars, env_vars, call_vars, retry_vars, ck_vars,
                 store_vars, requests, received, last_response, gs_vars, fc_vars>>

\* Lines 316-320: the output file is read back into the buffer
CoReadOutput(c) ==
  /\ calls[c].pc = "read"
  /\ LET q == calls[c].output_file[1]
     IN IF q \notin DOMAIN tmp_dir
        THEN /\ calls' = [calls EXCEPT ![c] =
                  ReturnFrom(@, Err(NetworkError(<<"Failed to read output file: ",
                                                   "not found">>)))]
             /\ tmp_dir' = RemoveFiles(tmp_dir, OwnPaths(calls[c]))
        ELSE /\ calls' = [calls EXCEPT ![c] =
                  [@ EXCEPT !.buffer = Some(tmp_dir[q]), !.pc = "track"]]
             /\ tmp_dir' = tmp_dir
  /\ UNCHANGED <<sp_vars, led_vars, env_vars, call_vars, retry_vars, ck_vars, store_vars,
                 requests, received, last_response, tool_runs, gs_vars, fc_vars>>

\* Line 325: track_usage is awaited. Building the record can panic, which
\* unwinds the call; else the INSERT is carried out or refused while the
\* call waits, still holding its files
CoTrackUsage(c, write_ok) ==
  /\ calls[c].pc = "track"
  /\ LET t == track_usage(now, db, database, write_ok, calls[c].text,
                          calls[c].voice_id, DEFAULT_MODEL, TRUE, None)
     IN /\ db' = t.db
        /\ track_res' = t.res
        /\ IF t.res = Panic
           THEN /\ calls' = [calls EXCEPT ![c] = ReturnFrom([@ EXCEPT !.buffer = None], Panic)]
                /\ tmp_dir' = RemoveFiles(tmp_dir, OwnPaths(calls[c]))
           ELSE /\ calls' = [calls EXCEPT ![c] =
                     [@ EXCEPT !.pc = "resume",
                               !.wrote = IF t.res = Ok(<<>>)
                                         THEN Some(NewUsageRecord(now, calls[c].text,
                                                calls[c].voice_id, DEFAULT_MODEL, TRUE, None))
                                         ELSE None]]
                /\ tmp_dir' = tmp_dir
  /\ UNCHANGED <<sp_vars, led_vars, env_vars, call_vars, retry_vars, ck_vars,
                 requests, received, last_response, tool_runs, gs_vars, fc_vars>>

\* Lines 325-327: the call resumes, the write's result is ignored and the
\* buffer returned
CoFinish(c) ==
  /\ calls[c].pc = "resume"
  /\ calls' = [calls EXCEPT ![c] =
       ReturnFrom([@ EXCEPT !.buffer = None], Ok(calls[c].buffer[1]))]
  /\ tmp_dir' = RemoveFiles(tmp_dir, OwnPaths(calls[c]))
  /\ UNCHANGED <<sp_vars, led_vars, env_vars, call_vars, retry_vars, ck_vars, store_vars,
                 requests, received, last_response, tool_runs, gs_vars, fc_vars>>

\* The command read_text_file (main.rs lines 116-148) on a path of the
\* temporary directory: a path with no file is refused (line 129); a file
\* that reads as text is returned and then removed (lines 140-145), one that
\* is not UTF-8 is left alone (line 146). The manifests and the empty output
\* file are text; whether audio reads as text, `utf8_ok`, is up to the bytes
\* the provider sent.
ReadTextFile(q, utf8_ok) ==
  /\ IF q \notin DOMAIN tmp_dir
     THEN /\ utf8_ok
          /\ led' = [name |-> "read_text_file",
                     res |-> Err(<<"Invalid file path">>)]
          /\ tmp_dir' = tmp_dir
     ELSE IF utf8_ok
     THEN /\ led' = [name |-> "read_text_file", res |-> Ok(tmp_dir[q])]
          /\ tmp_dir' = RemoveFiles(tmp_dir, {q})
     ELSE /\ tmp_dir[q] # <<>>
          /\ q \notin HeldPaths(".txt")
          /\ led' = [name |-> "read_text_file",
                     res |-> Err(<<"Failed to read file: ",
                                   "stream did not contain valid UTF-8">>)]
          /\ tmp_dir' = tmp_dir
  /\ UNCHANGED <<sp_vars, calls, env_vars, call_vars, retry_vars, ck_vars, store_vars,
                 requests, received, last_response, tool_runs, gs_vars, fc_vars,
                 now, cache, given, snaps, inflight>>

\* two generation calls, interleaved at every step
ConcurrentNext ==
  \/ \E c \in Callers, t \in CoTexts : CoStart(c, t, CoVoice(c))
  \/ \E c \in Callers : CoSend(c)
  \/ \E c \in Callers, q \in Paths : \E resp \in CoResponses(c) : CoRespond(c, resp, q)
  \/ \E c \in Callers : CoWake(c)
  \/ \E c \in Callers : CoReturnSingle(c)
  \/ \E c \in Callers, q \in Paths : CoListFile(c, q)
  \/ \E c \in Callers, q \in Paths : CoOutputFile(c, q)
  \/ \E c \in Callers, tool \in ToolOutcomes : CoRunTool(c, tool)
  \/ \E c \in Callers : CoReadOutput(c)
  \/ \E c \in Callers, write_ok \in BOOLEAN : CoTrackUsage(c, write_ok)
  \/ \E c \in Callers : CoFinish(c)

SpecConcurrent == ConcurrentInit /\ [][ConcurrentNext]_vars

\* the two calls together with one invocation of the command read_text_file
\* on a path of the temporary directory
TempDirNext ==
  \/ ConcurrentNext
  \/ led.name = "none" /\
       \E q \in DOMAIN tmp_dir \cup {NoFile}, utf8_ok \in BOOLEAN : ReadTextFile(q, utf8_ok)

SpecTempDir == ConcurrentInit /\ [][TempDirNext]_vars


(***************************************************************************)
(* Properties of concurrent calls (checked under SpecConcurrent)           *)
(***************************************************************************)
\* the callers whose call handed a record to the ledger
Writers == { c \in Callers : calls[c].wrote # None }

\* the row is the record the call of c handed to the ledger
RowOf(row, c) ==
  /\ row.id # None
  /\ DecodeRecord(row) = [calls[c].wrote[1] EXCEPT !.id = row.id]

\* no temporary file that the call of c holds is held by another call, and
\* each of its files is there and holds what the call wrote to it
FilesApart(c) ==
  LET call == calls[c]
  IN /\ \A d \in Callers \ {c} : OwnPaths(call) \cap OwnPaths(calls[d]) = {}
     /\ OwnPaths(call) \subseteq DOMAIN tmp_dir
     /\ \A k \in DOMAIN call.temp_files :
          tmp_dir[call.temp_files[k]] = AudioFor(c, k)
     /\ call.list_file # None => tmp_dir[call.list_file[1]] = call.temp_files
     /\ call.buffer # None =>
          call.buffer[1] = Concat([k \in DOMAIN call.chunks |-> AudioFor(c, k)])

\* C31: two generation calls running concurrently are independent under
\* every interleaving: the audio each call returns is built only from its
\* own chunks in its own order, neither call reads or deletes the other's
\* temporary files, and the ledger ends up containing every record written
\* by both calls (no lost or merged record).
C31_ConcurrentCallsIndependent ==
  /\ \A c \in Callers :
       /\ calls[c].result.tag = "ok" =>
            calls[c].result.value =
              Concat([k \in DOMAIN calls[c].chunks |-> AudioFor(c, k)])
       /\ FilesApart(c)
  /\ Len(db.rows) = Cardinality(Writers)
  /\ \E f \in [Writers -> DOMAIN db.rows] :
       /\ \A c, d \in Writers : c # d => f[c] # f[d]
       /\ \A c \in Writers : RowOf(db.rows[f[c]], c)

\* two calls of two chunks each, their requests issued in turn, have both
\* returned their own audio and left one record each
C31_Witness ==
  /\ \A c \in Callers :
       /\ calls[c].pc = "done"
       /\ Len(calls[c].chunks) = 2
       /\ calls[c].result.tag = "ok"
  /\ Len(requests) = 4
  /\ \A k \in 1..3 : requests[k].voice # requests[k + 1].voice
  /\ Len(db.rows) = 2
  /\ tmp_dir = EmptyDir


(***************************************************************************)
(* SpecAbandon: a call of generate_speech_with_retry, generate_speech or   *)
(* generate_speech_chunked whose caller may drop it while it is suspended  *)
(***************************************************************************)
\* track_usage awaits the INSERT (line 471, database.rs line 133) when a
\* ledger is configured and building the record did not panic
LedgerWriteSuspends(t) ==
  database /\ ~(ByteLen(t) > StoreLimit /\ SlicePanics(t, StorePrefix))

\* the call is suspended on the INSERT of a usage record: that of the whole
\* text on the concatenation path (line 325), or that of a chunk's outcome
\* in generate_speech_tracked_single (lines 515 and 519)
AtLedgerWrite ==
  \/ fc_pc = "track" /\ LedgerWriteSuspends(gs_text)
  \/ pc = "ts_await" /\ gs_pc = "done" /\ gs_result # Panic /\ LedgerWriteSuspends(gs_text)

\* the ledger once the INSERT the call is suspended on has been carried out
InFlightWrite ==
  LET ok == fc_pc = "track" \/ gs_result.tag = "ok"
  IN  track_usage(now, db, database, TRUE, gs_text, voice, DEFAULT_MODEL, ok,
                  IF ok THEN None ELSE Some(to_string(gs_result.error))).db

\* The call is suspended in an .await: on a provider request (lines 142 and
\* 205, send), on the 200 ms delay between chunks (lines 193 and 497), on
\* the backoff wait (line 416), or on the INSERT of a usage record. The
\* external tool is run with std::process::Command::output (line 291),
\* which blocks the thread instead of suspending the call, so the call
\* cannot be dropped during it.
SuspensionPoint ==
  \/ gs_pc = "await"
  \/ fc_pc \in {"await", "sleep"}
  \/ AtLedgerWrite
  \/ pc \in {"ck_sleep", "retry_sleep"}

\* mutant of Abandon: the pipeline goes on without its caller
AbandonDetached(landed) ==
  /\ SuspensionPoint
  /\ landed => AtLedgerWrite
  /\ pc' = "abandoned"
  /\ db' = IF landed THEN InFlightWrite ELSE db
  /\ UNCHANGED <<sp_vars, led_vars, co_vars, env_vars, op, text, voice, model, result,
                 retry_vars, ck_vars, track_res, requests, received, last_response,
                 tool_runs, gs_vars, fc_vars>>

\* The caller drops the future of the suspended call: nothing of the call
\* runs any more, nothing is returned, and the locals of every nested call
\* are dropped, the temporary files among them. A call dropped while it
\* waits for an INSERT has handed the statement to the driver or has not:
\* the record it was writing is in the ledger (`landed`) or is not.
Abandon(landed) ==
  /\ SuspensionPoint
  /\ landed => AtLedgerWrite
  /\ pc' = "abandoned"
  /\ db' = IF landed THEN InFlightWrite ELSE db
  /\ gs_pc' = "idle"
  /\ fc_pc' = "idle"
  /\ temp_files' = DropTempFiles(temp_files)
  /\ list_file' = DropTempFiles(list_file)
  /\ output_file' = DropTempFiles(output_file)
  /\ UNCHANGED <<sp_vars, led_vars, co_vars, env_vars, op, text, voice, model, result,
                 retry_vars, ck_vars, track_res, requests, received, last_response,
                 tool_runs, gs_text, gs_model, gs_result, fc_chunks, fc_i, fc_result>>

AbandonNext ==
  \/ pc = "idle" /\ \E t \in RetryTexts, v \in VoiceIds : CallRetry(t, v)
  \/ RetryAttempt
  \/ RetryHandle
  \/ RetryWake
  \/ pc = "idle" /\ \E t \in PipeTexts, v \in VoiceIds : CallSpeech(t, v)
  \/ SpeechReturn
  \/ pc = "idle" /\ \E t \in PipeTexts, v \in VoiceIds : CallChunked(t, v)
  \/ ChunkedNextChunk
  \/ ChunkedWake
  \/ TrackedSingleGenerate
  \/ \E write_ok \in BOOLEAN : TrackedSingleTrack(write_ok)
  \/ ChunkedReturn
  \/ GsEntry
  \/ GsSend
  \/ \E resp \in Responses : GsRespond(resp)
  \/ GsConcatReturn
  \/ FcStart
  \/ FcNextChunk
  \/ FcWake
  \/ FcSend
  \/ \E resp \in Responses : FcRespond(resp)
  \/ FcReturnSingle
  \/ FcRunTool
  \/ \E tool \in ToolOutcomes : FcConcatenate(tool)
  \/ \E write_ok \in BOOLEAN : FcTrackReturn(write_ok)
  \/ \E landed \in BOOLEAN : Abandon(landed)

SpecAbandon == Init /\ [][AbandonNext]_vars

\* C32: if a generation call is abandoned at a suspension point (a provider
\* request, the 200 ms inter-chunk delay, a backoff wait, the concatenation
\* step), the caller receives no audio, no further provider request or
\* ledger write is made by that call, and the ledger records already
\* written for its completed chunks remain. (A call abandoned while it waits
\* for an INSERT makes no further write either: the ledger gains at most
\* the record of that one statement, which the call had issued.)
C32_AbandonedCallStops ==
  /\ [](pc = "abandoned" =>
          /\ result = Pending
          /\ temp_files = <<>> /\ list_file = None /\ output_file = None)
  /\ [][pc' = "abandoned" =>
          /\ requests' = requests
          /\ received' = received
          /\ tool_runs' = tool_runs
          /\ \/ db' = db
             \/ pc # "abandoned" /\ AtLedgerWrite /\ db' = InFlightWrite]_vars

\* a chunked call abandoned during the delay after a chunk was recorded
C32_Witness ==
  /\ pc = "abandoned"
  /\ op = "chunked"
  /\ database
  /\ ck_i >= 1
  /\ Len(db.rows) = ck_i
  /\ Len(requests) = ck_i

====
